---- MODULE Spec2Model ----
(***************************************************************************)
(* Model of the hydrolysis analyzer (src/src/semantics.rs and              *)
(* src/src/analysis.rs): operator semantics classification, ND taint       *)
(* propagation, the CALM pass and issue attribution of run_analysis.       *)
(*                                                                         *)
(* Conventions.  A Rust String that the code inspects by content (operator *)
(* labels, type labels, backtrace file paths and function names) is a      *)
(* sequence of one-character strings, so to_lowercase and contains are     *)
(* computed.  Strings the code only compares or formats (ids, node kinds,  *)
(* tags) are TLA+ strings.  Option<T> is a sequence of length at most one: *)
(* None == <<>> and Some(x) == <<x>>.  A HashMap is a function whose       *)
(* DOMAIN is the set of inserted keys.  Indices are 1-based where the code *)
(* uses 0-based Vec positions.                                             *)
(***************************************************************************)
EXTENDS Integers, Sequences, FiniteSets, TLC

VARIABLES ir, pc, graph, tainted, nd_effects, worklist, calm_results,
          node_analyses, edge_analyses, overall, annotated, reach, visits

vars == <<ir, pc, graph, tainted, nd_effects, worklist, calm_results,
          node_analyses, edge_analyses, overall, annotated, reach, visits>>

None == <<>>
Some(x) == <<x>>
IsSome(o) == Len(o) = 1
Unwrap(o) == o[1]

(***************************************************************************)
(* String primitives (std::str): to_lowercase and contains.                *)
(***************************************************************************)
UpperToLower ==
    ("A" :> "a") @@ ("B" :> "b") @@ ("C" :> "c") @@ ("D" :> "d") @@ ("E" :> "e") @@ ("F" :> "f") @@
    ("G" :> "g") @@ ("H" :> "h") @@ ("I" :> "i") @@ ("J" :> "j") @@ ("K" :> "k") @@ ("L" :> "l") @@ ("M" :> "m") @@
    ("N" :> "n") @@ ("O" :> "o") @@ ("P" :> "p") @@ ("Q" :> "q") @@ ("R" :> "r") @@ ("S" :> "s") @@
    ("T" :> "t") @@ ("U" :> "u") @@ ("V" :> "v") @@ ("W" :> "w") @@ ("X" :> "x") @@ ("Y" :> "y") @@ ("Z" :> "z")

ToLowercase(s) ==
    [i \in 1..Len(s) |-> IF s[i] \in DOMAIN UpperToLower THEN UpperToLower[s[i]] ELSE s[i]]

StrContains(s, pat) ==
    \E i \in 0..(Len(s) - Len(pat)) :
        \A j \in 1..Len(pat) : s[i + j] = pat[j]

(***************************************************************************)
(* semantics.rs: NdEffect, Monotonicity, OpSemantics                       *)
(***************************************************************************)
NdEffect == {"Deterministic", "LocallyNonDet", "ExternalNonDet"}
Monotonicity == {"Always", "Never", "Depends"}
OpSemantics(nd, monotone) == [nd |-> nd, monotone |-> monotone]

\* Mutant of get_semantics: an unknown node kind is taken to be harmless.
get_semantics_DefaultDeterministic(node_type) ==
    CASE node_type = "Aggregation" -> OpSemantics("Deterministic", "Depends")
      [] node_type = "NonDeterministic" -> OpSemantics("LocallyNonDet", "Never")
      [] OTHER -> OpSemantics("Deterministic", "Always")

\* Mutant of get_semantics: the NonDeterministic kind is given monotonicity
\* Depends.
get_semantics_NonDetDepends(node_type) ==
    CASE node_type \in {"Source", "Transform", "Join", "Network", "Sink", "Tee"}
             -> OpSemantics("Deterministic", "Always")
      [] node_type = "Aggregation" -> OpSemantics("Deterministic", "Depends")
      [] node_type = "NonDeterministic" -> OpSemantics("LocallyNonDet", "Depends")
      [] OTHER -> OpSemantics("LocallyNonDet", "Never")

\* get_semantics: lookup by node type, conservative default for unknown types
get_semantics(node_type) ==
    CASE node_type = "Source" -> OpSemantics("Deterministic", "Always")
      [] node_type = "Transform" -> OpSemantics("Deterministic", "Always")
      [] node_type = "Join" -> OpSemantics("Deterministic", "Always")
      [] node_type = "Aggregation" -> OpSemantics("Deterministic", "Depends")
      [] node_type = "Network" -> OpSemantics("Deterministic", "Always")
      [] node_type = "Sink" -> OpSemantics("Deterministic", "Always")
      [] node_type = "Tee" -> OpSemantics("Deterministic", "Always")
      [] node_type = "NonDeterministic" -> OpSemantics("LocallyNonDet", "Never")
      [] OTHER -> OpSemantics("LocallyNonDet", "Never")

\* The arms of get_semantics_by_label, grouped by the value they return.
LabelsDetAlways ==
    { <<"m","a","p">>, <<"f","l","a","t","_","m","a","p">>,
      <<"f","l","a","t","m","a","p">>, <<"f","i","l","t","e","r">>,
      <<"f","i","l","t","e","r","_","m","a","p">>, <<"f","i","l","t","e","r","m","a","p">>,
      <<"i","n","s","p","e","c","t">>, <<"e","n","u","m","e","r","a","t","e">>,
      <<"c","l","o","n","e","d">>, <<"c","a","s","t">>,
      <<"c","h","a","i","n">>, <<"c","h","a","i","n","f","i","r","s","t">>,
      <<"i","n","t","o","_","k","e","y","e","d">>, <<"k","e","y","s">>,
      <<"r","e","s","o","l","v","e","_","f","u","t","u","r","e","s">>, <<"r","e","s","o","l","v","e","_","f","u","t","u","r","e","s","_","o","r","d","e","r","e","d">>,
      <<"a","l","l","_","t","i","c","k","s">>, <<"a","l","l","_","t","i","c","k","s","_","a","t","o","m","i","c">>,
      <<"d","e","f","e","r","_","t","i","c","k">>, <<"b","e","g","i","n","_","a","t","o","m","i","c">>,
      <<"e","n","d","_","a","t","o","m","i","c">>, <<"a","t","o","m","i","c">>,
      <<"j","o","i","n">>, <<"c","r","o","s","s","_","p","r","o","d","u","c","t">>,
      <<"c","r","o","s","s","p","r","o","d","u","c","t">>, <<"c","r","o","s","s","_","s","i","n","g","l","e","t","o","n">>,
      <<"c","r","o","s","s","_","p","r","o","d","u","c","t","_","n","e","s","t","e","d","_","l","o","o","p">>, <<"u","n","i","q","u","e">>,
      <<"f","o","l","d","_","c","o","m","m","u","t","a","t","i","v","e","_","i","d","e","m","p","o","t","e","n","t">>, <<"f","o","l","d","_","i","d","e","m","p","o","t","e","n","t","_","c","o","m","m","u","t","a","t","i","v","e">>,
      <<"r","e","d","u","c","e","_","c","o","m","m","u","t","a","t","i","v","e","_","i","d","e","m","p","o","t","e","n","t">>, <<"r","e","d","u","c","e","_","i","d","e","m","p","o","t","e","n","t","_","c","o","m","m","u","t","a","t","i","v","e">>,
      <<"b","a","t","c","h">>, <<"b","a","t","c","h","_","a","t","o","m","i","c">>,
      <<"n","e","t","w","o","r","k">>, <<"p","e","r","s","i","s","t">>,
      <<"t","e","e">>, <<"s","o","u","r","c","e","_","s","t","r","e","a","m">>,
      <<"s","o","u","r","c","e","_","i","t","e","r">>, <<"e","x","t","e","r","n","a","l","_","i","n","p","u","t">>,
      <<"c","y","c","l","e","_","s","o","u","r","c","e">>, <<"s","i","n","g","l","e","t","o","n","_","s","o","u","r","c","e">>,
      <<"f","o","r","_","e","a","c","h">>, <<"s","e","n","d","_","e","x","t","e","r","n","a","l">>,
      <<"c","y","c","l","e","_","s","i","n","k">>, <<"d","e","s","t","_","s","i","n","k">>,
      <<"f","i","l","t","e","r","_","i","f","_","s","o","m","e">>, <<"f","i","l","t","e","r","_","i","f","_","n","o","n","e">> }

LabelsDetNever ==
    { <<"d","i","f","f","e","r","e","n","c","e">>, <<"a","n","t","i","_","j","o","i","n">>,
      <<"a","n","t","i","j","o","i","n">>, <<"f","i","l","t","e","r","_","n","o","t","_","i","n">>,
      <<"s","o","r","t">> }

LabelsDetDepends ==
    { <<"f","o","l","d">>, <<"f","o","l","d","_","k","e","y","e","d">>,
      <<"f","o","l","d","k","e","y","e","d">>, <<"f","o","l","d","_","c","o","m","m","u","t","a","t","i","v","e">>,
      <<"f","o","l","d","_","i","d","e","m","p","o","t","e","n","t">>, <<"r","e","d","u","c","e">>,
      <<"r","e","d","u","c","e","_","k","e","y","e","d">>, <<"r","e","d","u","c","e","k","e","y","e","d">>,
      <<"r","e","d","u","c","e","_","c","o","m","m","u","t","a","t","i","v","e">>, <<"r","e","d","u","c","e","_","i","d","e","m","p","o","t","e","n","t">>,
      <<"r","e","d","u","c","e","_","k","e","y","e","d","_","w","a","t","e","r","m","a","r","k">>, <<"s","c","a","n">>,
      <<"m","i","n">>, <<"m","a","x">>,
      <<"c","o","u","n","t">>, <<"f","i","r","s","t">>,
      <<"l","a","s","t">>, <<"c","o","l","l","e","c","t","_","v","e","c">> }

LabelsNonDetNever ==
    { <<"o","b","s","e","r","v","e","_","n","o","n","_","d","e","t">>, <<"o","b","s","e","r","v","e","n","o","n","d","e","t">>,
      <<"n","o","n","d","e","t">>, <<"s","a","m","p","l","e","_","e","v","e","r","y">>,
      <<"t","i","m","e","o","u","t">> }

\* get_semantics_by_label: Option<OpSemantics>, matching on label.to_lowercase()
get_semantics_by_label(label) ==
    LET l == ToLowercase(label) IN
    CASE l \in LabelsDetAlways -> Some(OpSemantics("Deterministic", "Always"))
      [] l \in LabelsDetNever -> Some(OpSemantics("Deterministic", "Never"))
      [] l \in LabelsDetDepends -> Some(OpSemantics("Deterministic", "Depends"))
      [] l \in LabelsNonDetNever -> Some(OpSemantics("LocallyNonDet", "Never"))
      [] OTHER -> None

LatticePatterns ==
    { <<"l","a","t","t","i","c","e","s",":",":">>, <<"M","a","x","<">>,
      <<"M","i","n","<">>, <<"D","o","m","P","a","i","r","<">>,
      <<"S","e","t","U","n","i","o","n","<">>, <<"M","a","p","U","n","i","o","n","<">>,
      <<"V","e","c","U","n","i","o","n","<">>, <<"W","i","t","h","B","o","t","<">>,
      <<"W","i","t","h","T","o","p","<">>, <<"C","o","n","f","l","i","c","t","<">>,
      <<"P","o","i","n","t","<">>, <<"P","a","i","r","<">>,
      <<"C","a","u","s","a","l","W","r","a","p","p","e","r","<">>, <<"V","C","W","r","a","p","p","e","r","<">>,
      <<"W","i","t","h","T","o","m","b","s","t","o","n","e","s","<">> }

\* Mutant of is_lattice_type: the name of a lattice type is enough, without
\* the '<' that follows it.
is_lattice_type_NameOnly(label) ==
    IsSome(label) /\
    \E p \in LatticePatterns :
        StrContains(Unwrap(label), IF p[Len(p)] = "<" THEN SubSeq(p, 1, Len(p) - 1) ELSE p)

\* is_lattice_type(label: Option<&str>)
is_lattice_type(label) ==
    IsSome(label) /\ \E p \in LatticePatterns : StrContains(Unwrap(label), p)

NetworkBatchFiles == { <<"n","e","t","w","o","r","k","i","n","g",".","r","s">>,
                       <<"l","o","c","a","t","i","o","n","/","m","o","d",".","r","s">> }

CommutativeIdempotentNames == { <<"c","o","m","m","u","t","a","t","i","v","e","_","i","d","e","m","p","o","t","e","n","t">>,
                                <<"i","d","e","m","p","o","t","e","n","t","_","c","o","m","m","u","t","a","t","i","v","e">> }

\* A backtrace (serde_json::Value) is [array |-> Option<Seq(frame)>]; a frame
\* is [file |-> Option<str>, function |-> Option<str>] (as_str of the keys).
is_network_batch(backtrace) ==
    IsSome(backtrace.array) /\
    \E k \in 1..Len(Unwrap(backtrace.array)) :
        LET frame == Unwrap(backtrace.array)[k] IN
        IsSome(frame.file) /\ \E p \in NetworkBatchFiles : StrContains(Unwrap(frame.file), p)

\* Mutant of is_commutative_idempotent_fold: the file of a frame is searched
\* as well as its function.
is_commutative_idempotent_fold_AnyField(backtrace) ==
    IsSome(backtrace.array) /\
    \E k \in 1..Len(Unwrap(backtrace.array)) :
        LET frame == Unwrap(backtrace.array)[k] IN
        \/ IsSome(frame.function) /\
           \E p \in CommutativeIdempotentNames : StrContains(Unwrap(frame.function), p)
        \/ IsSome(frame.file) /\
           \E p \in CommutativeIdempotentNames : StrContains(Unwrap(frame.file), p)

is_commutative_idempotent_fold(backtrace) ==
    IsSome(backtrace.array) /\
    \E k \in 1..Len(Unwrap(backtrace.array)) :
        LET frame == Unwrap(backtrace.array)[k] IN
        IsSome(frame.function) /\
        \E p \in CommutativeIdempotentNames : StrContains(Unwrap(frame.function), p)

FoldReduceLabels == { <<"f","o","l","d">>, <<"f","o","l","d","k","e","y","e","d">>, <<"f","o","l","d","_","k","e","y","e","d">>,
                      <<"r","e","d","u","c","e">>, <<"r","e","d","u","c","e","k","e","y","e","d">>, <<"r","e","d","u","c","e","_","k","e","y","e","d">> }

STR_batch == <<"b","a","t","c","h">>
STR_observenondet == <<"o","b","s","e","r","v","e","n","o","n","d","e","t">>

\* Mutant of get_node_semantics: a label the table does not have gets the
\* conservative default instead of the semantics of the node kind.
get_node_semantics_NoFallback(node) ==
    IF IsSome(node.label)
    THEN LET label == Unwrap(node.label) IN
         IF label = STR_batch
         THEN IF IsSome(node.data) /\ is_network_batch(Unwrap(node.data).backtrace)
              THEN OpSemantics("Deterministic", "Always")
              ELSE Unwrap(get_semantics_by_label(label))
         ELSE IF label \in FoldReduceLabels \/ label = STR_observenondet
         THEN IF IsSome(node.data) /\ is_commutative_idempotent_fold(Unwrap(node.data).backtrace)
              THEN OpSemantics("Deterministic", "Always")
              ELSE Unwrap(get_semantics_by_label(label))
         ELSE IF IsSome(get_semantics_by_label(label))
              THEN Unwrap(get_semantics_by_label(label))
              ELSE OpSemantics("LocallyNonDet", "Never")
    ELSE get_semantics(node.node_type)

\* get_node_semantics: label lookup with the batch, fold/reduce and
\* observenondet context overrides, node type when there is no label.
get_node_semantics(node) ==
    IF IsSome(node.label)
    THEN LET label == Unwrap(node.label) IN
         IF label = STR_batch
         THEN IF IsSome(node.data) /\ is_network_batch(Unwrap(node.data).backtrace)
              THEN OpSemantics("Deterministic", "Always")
              ELSE Unwrap(get_semantics_by_label(label))
         ELSE IF label \in FoldReduceLabels
         THEN IF IsSome(node.data) /\ is_commutative_idempotent_fold(Unwrap(node.data).backtrace)
              THEN OpSemantics("Deterministic", "Always")
              ELSE Unwrap(get_semantics_by_label(label))
         ELSE IF label = STR_observenondet
         THEN IF IsSome(node.data) /\ is_commutative_idempotent_fold(Unwrap(node.data).backtrace)
              THEN OpSemantics("Deterministic", "Always")
              ELSE Unwrap(get_semantics_by_label(label))
         ELSE IF IsSome(get_semantics_by_label(label))
              THEN Unwrap(get_semantics_by_label(label))
              ELSE get_semantics(node.node_type)
    ELSE get_semantics(node.node_type)

(***************************************************************************)
(* analysis.rs: string constants of the analysis results                   *)
(***************************************************************************)
ND_DETERMINISTIC == "Deterministic"
ND_LOCALLY_NONDET == "LocallyNonDet"
ND_EXTERNAL_NONDET == "ExternalNonDet"
CALM_SAFE == "CalmSafe"
CALM_UNSAFE == "CalmUnsafe"

\* HashMap::insert(k, v)
Insert(m, k, v) == (k :> v) @@ m

\* The orders in which a HashSet may be iterated.
IterOrders(S) ==
    {s \in [1..Cardinality(S) -> S] : \A i, j \in 1..Cardinality(S) : i # j => s[i] # s[j]}

(***************************************************************************)
(* Graph::build, Graph::get_idx                                            *)
(***************************************************************************)
Graph_get_idx(g, node_id) ==
    IF node_id \in DOMAIN g.node_id_to_idx THEN Some(g.node_id_to_idx[node_id]) ELSE None

Graph_build(nodes, edges) ==
    LET n == Len(nodes)
        \* collect() into a HashMap: a later node with the same id replaces an earlier one
        node_id_to_idx ==
            [id \in {nodes[i].id : i \in 1..n} |->
                CHOOSE i \in 1..n : nodes[i].id = id /\ \A j \in 1..n : nodes[j].id = id => j <= i]
        Connected(e) == e.source \in DOMAIN node_id_to_idx /\ e.target \in DOMAIN node_id_to_idx
        Out(i) == SelectSeq(edges, LAMBDA e : Connected(e) /\ node_id_to_idx[e.source] = i)
        In(i) == SelectSeq(edges, LAMBDA e : Connected(e) /\ node_id_to_idx[e.target] = i)
    IN [node_id_to_idx |-> node_id_to_idx,
        forward |-> [i \in 1..n |-> [k \in 1..Len(Out(i)) |-> <<node_id_to_idx[Out(i)[k].target], Out(i)[k].id>>]],
        backward |-> [i \in 1..n |-> [k \in 1..Len(In(i)) |-> <<node_id_to_idx[In(i)[k].source], In(i)[k].id>>]]]

(***************************************************************************)
(* run_nd_pass                                                             *)
(***************************************************************************)
\* Mutant of NdSeedIdx: a non-monotone node is taken for a seed.
NdSeedIdx_NonMonotone(nodes) ==
    {i \in 1..Len(nodes) : \/ get_node_semantics(nodes[i]).nd # "Deterministic"
                           \/ get_node_semantics(nodes[i]).monotone = "Never"}

\* The seed loop: every node whose own semantics is not Deterministic
NdSeedIdx(nodes) ==
    {i \in 1..Len(nodes) : get_node_semantics(nodes[i]).nd # "Deterministic"}

NdSeedEffect(sem) ==
    IF sem.nd = "LocallyNonDet" THEN ND_LOCALLY_NONDET ELSE ND_EXTERNAL_NONDET

NdSeedEffects(nodes) ==
    [id \in {nodes[i].id : i \in NdSeedIdx(nodes)} |->
        LET i == CHOOSE i \in NdSeedIdx(nodes) :
                     nodes[i].id = id /\ \A j \in NdSeedIdx(nodes) : nodes[j].id = id => j <= i
        IN NdSeedEffect(get_node_semantics(nodes[i]))]

\* Mutant of NdPropagatedEffect: a successor that is Deterministic by itself
\* is given the external flavor.
NdPropagatedEffect_External(sem) ==
    CASE sem.nd = "Deterministic" -> ND_EXTERNAL_NONDET
      [] sem.nd = "LocallyNonDet" -> ND_LOCALLY_NONDET
      [] sem.nd = "ExternalNonDet" -> ND_EXTERNAL_NONDET

\* The effect given to a successor reached by propagation
NdPropagatedEffect(sem) ==
    CASE sem.nd = "Deterministic" -> ND_LOCALLY_NONDET
      [] sem.nd = "LocallyNonDet" -> ND_LOCALLY_NONDET
      [] sem.nd = "ExternalNonDet" -> ND_EXTERNAL_NONDET

\* Mutant of NdVisit: a newly tainted successor is not pushed on the worklist.
RECURSIVE NdVisit_NoPush(_, _, _, _)
NdVisit_NoPush(nodes, succs, k, st) ==
    IF k > Len(succs) THEN st
    ELSE LET successor_idx == succs[k][1] IN
         IF successor_idx \notin st.tainted
         THEN NdVisit_NoPush(nodes, succs, k + 1,
                  [tainted |-> st.tainted \cup {successor_idx},
                   nd_effects |-> Insert(st.nd_effects, nodes[successor_idx].id,
                                         NdPropagatedEffect(get_node_semantics(nodes[successor_idx]))),
                   worklist |-> st.worklist])
         ELSE NdVisit_NoPush(nodes, succs, k + 1, st)

\* The body of the worklist loop for one popped node: the for loop over
\* graph.forward[node_idx], from position k on.
RECURSIVE NdVisit(_, _, _, _)
NdVisit(nodes, succs, k, st) ==
    IF k > Len(succs) THEN st
    ELSE LET successor_idx == succs[k][1] IN
         IF successor_idx \notin st.tainted
         THEN NdVisit(nodes, succs, k + 1,
                  [tainted |-> st.tainted \cup {successor_idx},
                   nd_effects |-> Insert(st.nd_effects, nodes[successor_idx].id,
                                         NdPropagatedEffect(get_node_semantics(nodes[successor_idx]))),
                   worklist |-> Append(st.worklist, successor_idx)])
         ELSE NdVisit(nodes, succs, k + 1, st)

\* Mark untainted nodes as Deterministic: entry(id).or_insert(Deterministic)
NdFillDeterministic(nodes, effects) ==
    [id \in DOMAIN effects \cup {nodes[i].id : i \in 1..Len(nodes)} |->
        IF id \in DOMAIN effects THEN effects[id] ELSE ND_DETERMINISTIC]

\* The worklist loop of run_nd_pass run to its end
RECURSIVE NdLoop(_, _, _)
NdLoop(g, nodes, st) ==
    IF st.worklist = <<>> THEN st
    ELSE LET node_idx == st.worklist[Len(st.worklist)]
             popped == [st EXCEPT !.worklist = SubSeq(st.worklist, 1, Len(st.worklist) - 1)]
         IN NdLoop(g, nodes, NdVisit(nodes, g.forward[node_idx], 1, popped))

\* run_nd_pass as a function of the graph, the nodes and the order in which
\* the tainted HashSet is collected into the worklist: the nd_effects returned
run_nd_pass(g, nodes, order) ==
    NdFillDeterministic(nodes,
        NdLoop(g, nodes, [tainted |-> NdSeedIdx(nodes), nd_effects |-> NdSeedEffects(nodes),
                          worklist |-> order]).nd_effects)

(***************************************************************************)
(* compute_backward_reachable, check_edge_calm_safe, run_calm_pass         *)
(***************************************************************************)
\* Mutant of BackwardVisit: a new predecessor is not pushed on the worklist.
RECURSIVE BackwardVisit_NoPush(_, _, _)
BackwardVisit_NoPush(preds, k, st) ==
    IF k > Len(preds) THEN st
    ELSE LET predecessor_idx == preds[k][1] IN
         IF predecessor_idx \notin st.reachable
         THEN BackwardVisit_NoPush(preds, k + 1,
                  [reachable |-> st.reachable \cup {predecessor_idx},
                   worklist |-> st.worklist])
         ELSE BackwardVisit_NoPush(preds, k + 1, st)

\* Mutant of BackwardVisit: a predecessor is pushed whether or not it is
\* already in the reachable set.
RECURSIVE BackwardVisit_Revisit(_, _, _)
BackwardVisit_Revisit(preds, k, st) ==
    IF k > Len(preds) THEN st
    ELSE LET predecessor_idx == preds[k][1] IN
         BackwardVisit_Revisit(preds, k + 1,
             [reachable |-> st.reachable \cup {predecessor_idx},
              worklist |-> Append(st.worklist, predecessor_idx)])

\* The for loop over graph.backward[node_idx], from position k on.
RECURSIVE BackwardVisit(_, _, _)
BackwardVisit(preds, k, st) ==
    IF k > Len(preds) THEN st
    ELSE LET predecessor_idx == preds[k][1] IN
         IF predecessor_idx \notin st.reachable
         THEN BackwardVisit(preds, k + 1,
                  [reachable |-> st.reachable \cup {predecessor_idx},
                   worklist |-> Append(st.worklist, predecessor_idx)])
         ELSE BackwardVisit(preds, k + 1, st)

RECURSIVE BackwardLoop(_, _)
BackwardLoop(g, st) ==
    IF st.worklist = <<>> THEN st.reachable
    ELSE LET node_idx == st.worklist[Len(st.worklist)]
             popped == [st EXCEPT !.worklist = SubSeq(st.worklist, 1, Len(st.worklist) - 1)]
         IN BackwardLoop(g, BackwardVisit(g.backward[node_idx], 1, popped))

\* Mutant of compute_backward_reachable: the target and its direct
\* predecessors only.
compute_backward_reachable_OneStep(g, target_idx) ==
    {target_idx} \cup {g.backward[target_idx][k][1] : k \in 1..Len(g.backward[target_idx])}

compute_backward_reachable(g, target_idx) ==
    BackwardLoop(g, [reachable |-> {target_idx}, worklist |-> <<target_idx>>])

\* The edge lookup map keyed by (source index, target index): a later edge
\* of the list replaces an earlier one with the same key.
BuildEdgeMap(g, edges) ==
    LET Keyed(k) == IsSome(Graph_get_idx(g, edges[k].source)) /\ IsSome(Graph_get_idx(g, edges[k].target))
        KeyOf(k) == <<g.node_id_to_idx[edges[k].source], g.node_id_to_idx[edges[k].target]>>
        Ks == {k \in 1..Len(edges) : Keyed(k)}
    IN [key \in {KeyOf(k) : k \in Ks} |->
           edges[CHOOSE k \in Ks : KeyOf(k) = key /\ \A j \in Ks : KeyOf(j) = key => j <= k]]

\* Mutant of check_edge_calm_safe: a critical edge whose target is missing is
\* rejected instead of accepted.
check_edge_calm_safe_MissingTargetUnsafe(g, nodes, edges, target_edge) ==
    /\ IsSome(Graph_get_idx(g, target_edge.target))
    /\ LET target_idx == Unwrap(Graph_get_idx(g, target_edge.target))
           edge_map == BuildEdgeMap(g, edges)
           reachable == compute_backward_reachable(g, target_idx)
       IN \A node_idx \in reachable :
             /\ get_node_semantics(nodes[node_idx]).monotone # "Never"
             /\ \A k \in 1..Len(g.forward[node_idx]) :
                   LET successor_idx == g.forward[node_idx][k][1] IN
                   (successor_idx \in reachable \/ successor_idx = target_idx) =>
                       ~(/\ <<node_idx, successor_idx>> \in DOMAIN edge_map
                         /\ ~is_lattice_type(edge_map[<<node_idx, successor_idx>>].label))

\* Mutant of check_edge_calm_safe: every outgoing edge of a reachable node is
\* checked, also one that leaves the reachable set.
check_edge_calm_safe_AnySuccessor(g, nodes, edges, target_edge) ==
    IF ~IsSome(Graph_get_idx(g, target_edge.target)) THEN TRUE
    ELSE LET target_idx == Unwrap(Graph_get_idx(g, target_edge.target))
             edge_map == BuildEdgeMap(g, edges)
             reachable == compute_backward_reachable(g, target_idx)
         IN \A node_idx \in reachable :
               /\ get_node_semantics(nodes[node_idx]).monotone # "Never"
               /\ \A k \in 1..Len(g.forward[node_idx]) :
                     LET successor_idx == g.forward[node_idx][k][1] IN
                     ~(/\ <<node_idx, successor_idx>> \in DOMAIN edge_map
                       /\ ~is_lattice_type(edge_map[<<node_idx, successor_idx>>].label))

\* check_edge_calm_safe: the early returns of the loop make a conjunction over
\* the reachable set, whatever the order in which the HashSet is iterated.
check_edge_calm_safe(g, nodes, edges, target_edge) ==
    IF ~IsSome(Graph_get_idx(g, target_edge.target)) THEN TRUE
    ELSE LET target_idx == Unwrap(Graph_get_idx(g, target_edge.target))
             edge_map == BuildEdgeMap(g, edges)
             reachable == compute_backward_reachable(g, target_idx)
         IN \A node_idx \in reachable :
               /\ get_node_semantics(nodes[node_idx]).monotone # "Never"
               /\ \A k \in 1..Len(g.forward[node_idx]) :
                     LET successor_idx == g.forward[node_idx][k][1] IN
                     (successor_idx \in reachable \/ successor_idx = target_idx) =>
                         ~(/\ <<node_idx, successor_idx>> \in DOMAIN edge_map
                           /\ ~is_lattice_type(edge_map[<<node_idx, successor_idx>>].label))

\* Mutant of IsCriticalEdge: every edge is critical.
IsCriticalEdge_Every(g, nodes, edge) == TRUE

\* Mutant of IsCriticalEdge: only the Network tag makes an edge critical.
IsCriticalEdge_NetworkOnly(g, nodes, edge) ==
    IsSome(edge.semantic_tags) /\
    \E t \in 1..Len(Unwrap(edge.semantic_tags)) : Unwrap(edge.semantic_tags)[t] = "Network"

IsCriticalEdge(g, nodes, edge) ==
    LET is_network == IsSome(edge.semantic_tags) /\
                      \E t \in 1..Len(Unwrap(edge.semantic_tags)) : Unwrap(edge.semantic_tags)[t] = "Network"
        targets_sink == IsSome(Graph_get_idx(g, edge.target)) /\
                        nodes[Unwrap(Graph_get_idx(g, edge.target))].node_type = "Sink"
    IN is_network \/ targets_sink

\* Mutant of run_calm_pass: all_calm_safe is assigned the status of each
\* critical edge in turn, so the last one decides.
run_calm_pass_LastEdge(g, nodes, edges) ==
    LET critical == {k \in 1..Len(edges) : IsCriticalEdge(g, nodes, edges[k])}
        StatusOf(k) == IF check_edge_calm_safe(g, nodes, edges, edges[k]) THEN CALM_SAFE ELSE CALM_UNSAFE
    IN [calm_status |->
            [id \in {edges[k].id : k \in 1..Len(edges)} |->
                IF \E k \in critical : edges[k].id = id
                THEN StatusOf(CHOOSE k \in critical :
                                 edges[k].id = id /\ \A j \in critical : edges[j].id = id => j <= k)
                ELSE CALM_SAFE],
        overall_calm_safe |->
            \A k \in critical : (\A j \in critical : j <= k) => StatusOf(k) = CALM_SAFE]

run_calm_pass(g, nodes, edges) ==
    LET critical == {k \in 1..Len(edges) : IsCriticalEdge(g, nodes, edges[k])}
        StatusOf(k) == IF check_edge_calm_safe(g, nodes, edges, edges[k]) THEN CALM_SAFE ELSE CALM_UNSAFE
    IN [calm_status |->
            [id \in {edges[k].id : k \in 1..Len(edges)} |->
                IF \E k \in critical : edges[k].id = id
                THEN StatusOf(CHOOSE k \in critical :
                                 edges[k].id = id /\ \A j \in critical : edges[j].id = id => j <= k)
                ELSE CALM_SAFE],
        overall_calm_safe |-> \A k \in critical : StatusOf(k) = CALM_SAFE]

(***************************************************************************)
(* run_analysis: node and edge analyses, extract_issues                    *)
(***************************************************************************)
Issue(kind, message) == [kind |-> kind, message |-> message]

\* format!("Node '{}' is nondeterministic ({})", node.id, nd_effect)
NonDetMessage(node_id, nd_effect) ==
    <<"Node '", node_id, "' is nondeterministic (", nd_effect, ")">>

\* format!("Node '{}' is non-monotone on CALM-critical path to edge '{}'", node.id, edge.id)
NonMonotoneMessage(node_id, edge_id) ==
    <<"Node '", node_id, "' is non-monotone on CALM-critical path to edge '", edge_id, "'">>

\* format!("Edge '{}' is non-lattice on CALM-critical path to edge '{}'", path_edge.id, edge.id)
NonLatticeMessage(path_edge_id, edge_id) ==
    <<"Edge '", path_edge_id, "' is non-lattice on CALM-critical path to edge '", edge_id, "'">>

PushIssue(analyses, id, issue) ==
    [analyses EXCEPT ![id].issues = Append(@, issue)]

MakeNodeAnalyses(nodes, effects) ==
    [id \in {nodes[i].id : i \in 1..Len(nodes)} |->
        LET i == CHOOSE i \in 1..Len(nodes) :
                     nodes[i].id = id /\ \A j \in 1..Len(nodes) : nodes[j].id = id => j <= i
        IN [nd_effect |-> IF id \in DOMAIN effects THEN effects[id] ELSE ND_DETERMINISTIC,
            monotone |-> get_node_semantics(nodes[i]).monotone # "Never",
            issues |-> <<>>]]

MakeEdgeAnalyses(edges, calm_status) ==
    [id \in {edges[k].id : k \in 1..Len(edges)} |->
        LET k == CHOOSE k \in 1..Len(edges) :
                     edges[k].id = id /\ \A j \in 1..Len(edges) : edges[j].id = id => j <= k
        IN [is_lattice |-> is_lattice_type(edges[k].label),
            calm |-> IF id \in DOMAIN calm_status THEN calm_status[id] ELSE CALM_SAFE,
            issues |-> <<>>]]

\* Mutant of NonDetIssues: the issue is decided by the node's own semantics,
\* not by its propagated effect.
RECURSIVE NonDetIssues_RootsOnly(_, _, _, _)
NonDetIssues_RootsOnly(nodes, effects, i, na) ==
    IF i > Len(nodes) THEN na
    ELSE LET node == nodes[i] IN
         IF /\ node.id \in DOMAIN effects
            /\ get_node_semantics(node).nd # "Deterministic"
            /\ node.id \in DOMAIN na
         THEN NonDetIssues_RootsOnly(nodes, effects, i + 1,
                  PushIssue(na, node.id, Issue("NonDet", NonDetMessage(node.id, effects[node.id]))))
         ELSE NonDetIssues_RootsOnly(nodes, effects, i + 1, na)

\* The NonDet loop of extract_issues, from node position i on.
RECURSIVE NonDetIssues(_, _, _, _)
NonDetIssues(nodes, effects, i, na) ==
    IF i > Len(nodes) THEN na
    ELSE LET node == nodes[i] IN
         IF /\ node.id \in DOMAIN effects
            /\ effects[node.id] # ND_DETERMINISTIC
            /\ node.id \in DOMAIN na
         THEN NonDetIssues(nodes, effects, i + 1,
                  PushIssue(na, node.id, Issue("NonDet", NonDetMessage(node.id, effects[node.id]))))
         ELSE NonDetIssues(nodes, effects, i + 1, na)

\* Mutant of NonLatticeIssues: the type label of the path edge is not looked at.
RECURSIVE NonLatticeIssues_AnyLabel(_, _, _, _, _, _, _, _)
NonLatticeIssues_AnyLabel(succs, k, node_idx, target_idx, reachable, edge_map, edge, ea) ==
    IF k > Len(succs) THEN ea
    ELSE LET successor_idx == succs[k][1]
             key == <<node_idx, successor_idx>>
         IN IF /\ (successor_idx \in reachable \/ successor_idx = target_idx)
               /\ key \in DOMAIN edge_map
               /\ edge_map[key].id \in DOMAIN ea
            THEN NonLatticeIssues_AnyLabel(succs, k + 1, node_idx, target_idx, reachable, edge_map, edge,
                     PushIssue(ea, edge_map[key].id,
                               Issue("NonLattice", NonLatticeMessage(edge_map[key].id, edge.id))))
            ELSE NonLatticeIssues_AnyLabel(succs, k + 1, node_idx, target_idx, reachable, edge_map, edge, ea)

\* The loop over graph.forward[node_idx] inside extract_issues, from position k on.
RECURSIVE NonLatticeIssues(_, _, _, _, _, _, _, _)
NonLatticeIssues(succs, k, node_idx, target_idx, reachable, edge_map, edge, ea) ==
    IF k > Len(succs) THEN ea
    ELSE LET successor_idx == succs[k][1]
             key == <<node_idx, successor_idx>>
         IN IF /\ (successor_idx \in reachable \/ successor_idx = target_idx)
               /\ key \in DOMAIN edge_map
               /\ ~is_lattice_type(edge_map[key].label)
               /\ edge_map[key].id \in DOMAIN ea
            THEN NonLatticeIssues(succs, k + 1, node_idx, target_idx, reachable, edge_map, edge,
                     PushIssue(ea, edge_map[key].id,
                               Issue("NonLattice", NonLatticeMessage(edge_map[key].id, edge.id))))
            ELSE NonLatticeIssues(succs, k + 1, node_idx, target_idx, reachable, edge_map, edge, ea)

\* Mutant of CalmIssuesOverNodes: a node that already bears a NonMonotone
\* issue gets no second one.
RECURSIVE CalmIssuesOverNodes_Once(_, _, _, _, _, _, _, _, _)
CalmIssuesOverNodes_Once(nodes, g, order, p, target_idx, reachable, edge_map, edge, st) ==
    IF p > Len(order) THEN st
    ELSE LET node_idx == order[p]
             node == nodes[node_idx]
             na1 == IF /\ get_node_semantics(node).monotone = "Never"
                       /\ node.id \in DOMAIN st.na
                       /\ \A j \in 1..Len(st.na[node.id].issues) :
                             st.na[node.id].issues[j].kind # "NonMonotone"
                    THEN PushIssue(st.na, node.id,
                             Issue("NonMonotone", NonMonotoneMessage(node.id, edge.id)))
                    ELSE st.na
             ea1 == NonLatticeIssues(g.forward[node_idx], 1, node_idx, target_idx, reachable,
                                     edge_map, edge, st.ea)
         IN CalmIssuesOverNodes_Once(nodes, g, order, p + 1, target_idx, reachable, edge_map, edge,
                                     [na |-> na1, ea |-> ea1])

\* The loop over the reachable set for one CalmUnsafe edge; order is the
\* order in which the reachable HashSet is iterated, from position p on.
RECURSIVE CalmIssuesOverNodes(_, _, _, _, _, _, _, _, _)
CalmIssuesOverNodes(nodes, g, order, p, target_idx, reachable, edge_map, edge, st) ==
    IF p > Len(order) THEN st
    ELSE LET node_idx == order[p]
             node == nodes[node_idx]
             na1 == IF get_node_semantics(node).monotone = "Never" /\ node.id \in DOMAIN st.na
                    THEN PushIssue(st.na, node.id,
                             Issue("NonMonotone", NonMonotoneMessage(node.id, edge.id)))
                    ELSE st.na
             ea1 == NonLatticeIssues(g.forward[node_idx], 1, node_idx, target_idx, reachable,
                                     edge_map, edge, st.ea)
         IN CalmIssuesOverNodes(nodes, g, order, p + 1, target_idx, reachable, edge_map, edge,
                                [na |-> na1, ea |-> ea1])

\* The loop over ir.edges of extract_issues, from edge position k on: the set
\* of results, one for each order in which the reachable HashSets are iterated.
RECURSIVE CalmIssues(_, _, _, _, _, _, _)
CalmIssues(nodes, edges, g, calm_status, edge_map, k, st) ==
    IF k > Len(edges) THEN {st}
    ELSE LET edge == edges[k] IN
         IF /\ edge.id \in DOMAIN calm_status
            /\ calm_status[edge.id] = CALM_UNSAFE
            /\ IsSome(Graph_get_idx(g, edge.target))
         THEN LET target_idx == Unwrap(Graph_get_idx(g, edge.target))
                  reachable == compute_backward_reachable(g, target_idx)
              IN UNION { CalmIssues(nodes, edges, g, calm_status, edge_map, k + 1,
                             CalmIssuesOverNodes(nodes, g, order, 1, target_idx, reachable,
                                                 edge_map, edge, st)) :
                         order \in IterOrders(reachable) }
         ELSE CalmIssues(nodes, edges, g, calm_status, edge_map, k + 1, st)

\* extract_issues: the set of results it can produce
extract_issues(input, g, effects, calm, na, ea) ==
    CalmIssues(input.nodes, input.edges, g, calm.calm_status, BuildEdgeMap(g, input.edges), 1,
               [na |-> NonDetIssues(input.nodes, effects, 1, na), ea |-> ea])

\* Mutant of OverallDeterministic: any() where the code has all().
OverallDeterministic_Any(effects) ==
    \E id \in DOMAIN effects : effects[id] = ND_DETERMINISTIC

\* run_analysis: nd_results.nd_effects.values().all(|effect| effect == ND_DETERMINISTIC)
OverallDeterministic(effects) ==
    \A id \in DOMAIN effects : effects[id] = ND_DETERMINISTIC

(***************************************************************************)
(* The inputs: graphs of at most MaxNodes nodes and MaxEdges edges         *)
(***************************************************************************)
MaxNodes == 3
MaxEdges == 2

NodeIds == <<"n1", "n2", "n3", "n4", "n5">>
EdgeIds == <<"e1", "e2", "e3", "e4", "e5">>
NodeId(i) == NodeIds[i]
EdgeId(k) == EdgeIds[k]

\* One node shape for each classification the analysis distinguishes.
NodeShapes ==
    << [node_type |-> "Source", label |-> None, data |-> None],
       [node_type |-> "Sink", label |-> None, data |-> None],
       [node_type |-> "Aggregation", label |-> Some(<<"f","o","l","d">>), data |-> None],
       [node_type |-> "Transform", label |-> Some(<<"s","o","r","t">>), data |-> None],
       [node_type |-> "NonDeterministic", label |-> None, data |-> None] >>

\* Edges name their endpoints among the ids n1..nMaxNodes; an endpoint beyond
\* the nodes of the input is a missing node.
EdgeShapes ==
    [source : {NodeId(i) : i \in 1..MaxNodes},
     target : {NodeId(i) : i \in 1..MaxNodes},
     semantic_tags : {None, Some(<<"Network">>)},
     label : {None, Some(<<"S","e","t","U","n","i","o","n","<","i","3","2",">">>)}]

MakeNode(i, shape) ==
    [id |-> NodeId(i), node_type |-> shape.node_type, label |-> shape.label, data |-> shape.data]

MakeEdge(k, shape) ==
    [id |-> EdgeId(k), source |-> shape.source, target |-> shape.target,
     semantic_tags |-> shape.semantic_tags, label |-> shape.label]

\* Node lists are taken up to the order of the nodes: shapes in table order.
SortedShapes(n) ==
    {ns \in [1..n -> 1..Len(NodeShapes)] : \A i \in 1..(n - 1) : ns[i] <= ns[i + 1]}

EmptyGraph == [node_id_to_idx |-> <<>>, forward |-> <<>>, backward |-> <<>>]
EmptyCalm == [calm_status |-> <<>>, overall_calm_safe |-> TRUE]
EmptyOverall == [deterministic |-> TRUE, calm_safe |-> TRUE]

\* The locals of compute_backward_reachable before it is called
EmptyReach == [target_idx |-> None, reachable |-> {}, worklist |-> <<>>]

\* visits counts, for every node index, the pushes onto and the pops from the
\* worklist of run_nd_pass and the worklist of compute_backward_reachable
NoVisits == [nd_pushed |-> <<>>, nd_popped |-> <<>>, reach_pushed |-> <<>>, reach_popped |-> <<>>]

\* The counts after the node indices of seq have been pushed (or popped)
Counted(counts, seq) ==
    [i \in DOMAIN counts \cup {seq[k] : k \in 1..Len(seq)} |->
        (IF i \in DOMAIN counts THEN counts[i] ELSE 0) + Cardinality({k \in 1..Len(seq) : seq[k] = i})]

\* What one iteration pushed: the worklist after it, past the entries that
\* were below the popped one
Pushed(before, after) == SubSeq(after, Len(before), Len(after))

Init ==
    /\ \E n \in 0..MaxNodes, m \in 0..MaxEdges :
          \E ns \in SortedShapes(n) :
             \E es \in [1..m -> EdgeShapes] :
                ir = [nodes |-> [i \in 1..n |-> MakeNode(i, NodeShapes[ns[i]])],
                      edges |-> [k \in 1..m |-> MakeEdge(k, es[k])]]
    /\ pc = "build"
    /\ graph = EmptyGraph
    /\ tainted = {}
    /\ nd_effects = <<>>
    /\ worklist = <<>>
    /\ calm_results = EmptyCalm
    /\ node_analyses = <<>>
    /\ edge_analyses = <<>>
    /\ overall = EmptyOverall
    /\ annotated = None
    /\ reach = EmptyReach
    /\ visits = NoVisits

\* run_analysis: let graph = Graph::build(&ir.nodes, &ir.edges)
BuildGraph ==
    /\ pc = "build"
    /\ graph' = Graph_build(ir.nodes, ir.edges)
    /\ pc' = "nd_seed"
    /\ UNCHANGED <<annotated, reach, visits, ir, tainted, nd_effects, worklist, calm_results, node_analyses, edge_analyses, overall>>

\* run_nd_pass: the seed loop and the worklist collected from the tainted HashSet
NdSeed ==
    /\ pc = "nd_seed"
    /\ tainted' = NdSeedIdx(ir.nodes)
    /\ nd_effects' = NdSeedEffects(ir.nodes)
    /\ worklist' \in IterOrders(NdSeedIdx(ir.nodes))
    /\ visits' = [visits EXCEPT !.nd_pushed = Counted(@, worklist')]
    /\ pc' = "nd_loop"
    /\ UNCHANGED <<annotated, reach, ir, graph, calm_results, node_analyses, edge_analyses, overall>>

\* run_nd_pass: one iteration of while let Some(node_idx) = worklist.pop()
NdStep ==
    /\ pc = "nd_loop"
    /\ worklist # <<>>
    /\ LET node_idx == worklist[Len(worklist)]
           st == NdVisit(ir.nodes, graph.forward[node_idx], 1,
                         [tainted |-> tainted, nd_effects |-> nd_effects,
                          worklist |-> SubSeq(worklist, 1, Len(worklist) - 1)])
       IN /\ tainted' = st.tainted
          /\ nd_effects' = st.nd_effects
          /\ worklist' = st.worklist
          /\ visits' = [visits EXCEPT !.nd_popped = Counted(@, <<node_idx>>),
                                      !.nd_pushed = Counted(@, Pushed(worklist, st.worklist))]
    /\ UNCHANGED <<annotated, reach, ir, pc, graph, calm_results, node_analyses, edge_analyses, overall>>

\* run_nd_pass: the worklist is empty; untainted nodes become Deterministic
NdFinish ==
    /\ pc = "nd_loop"
    /\ worklist = <<>>
    /\ nd_effects' = NdFillDeterministic(ir.nodes, nd_effects)
    /\ pc' = "calm"
    /\ UNCHANGED <<annotated, reach, visits, ir, graph, tainted, worklist, calm_results, node_analyses, edge_analyses, overall>>

\* run_analysis: let calm_results = run_calm_pass(&graph, &ir.nodes, &ir.edges)
CalmPass ==
    /\ pc = "calm"
    /\ calm_results' = run_calm_pass(graph, ir.nodes, ir.edges)
    /\ pc' = "issues"
    /\ UNCHANGED <<annotated, reach, visits, ir, graph, tainted, nd_effects, worklist, node_analyses, edge_analyses, overall>>

\* run_analysis: overall_deterministic, the analyses, extract_issues, the result
Finish ==
    /\ pc = "issues"
    /\ \E st \in extract_issues(ir, graph, nd_effects, calm_results,
                                 MakeNodeAnalyses(ir.nodes, nd_effects),
                                 MakeEdgeAnalyses(ir.edges, calm_results.calm_status)) :
          /\ node_analyses' = st.na
          /\ edge_analyses' = st.ea
    /\ overall' = [deterministic |-> OverallDeterministic(nd_effects),
                   calm_safe |-> calm_results.overall_calm_safe]
    /\ pc' = "done"
    /\ UNCHANGED <<annotated, reach, visits, ir, graph, tainted, nd_effects, worklist, calm_results>>

Next == BuildGraph \/ NdSeed \/ NdStep \/ NdFinish \/ CalmPass \/ Finish

Spec == Init /\ [][Next]_vars

(***************************************************************************)
(* Properties of the result of run_analysis.  The notions below are stated *)
(* on the input ir alone, not through the graph index the passes build.    *)
(***************************************************************************)
Done == pc = "done"

InputNodeIds == {ir.nodes[i].id : i \in 1..Len(ir.nodes)}
InputEdges == 1..Len(ir.edges)
NodeOf(id) == ir.nodes[CHOOSE i \in 1..Len(ir.nodes) : ir.nodes[i].id = id]
OwnSemantics(id) == get_node_semantics(NodeOf(id))

\* Edges whose endpoints both exist
LinkedEdges == {k \in InputEdges : ir.edges[k].source \in InputNodeIds /\ ir.edges[k].target \in InputNodeIds}
Successors(S) == {ir.edges[k].target : k \in {j \in LinkedEdges : ir.edges[j].source \in S}}
Predecessors(S) == {ir.edges[k].source : k \in {j \in LinkedEdges : ir.edges[j].target \in S}}

RECURSIVE ForwardClosure(_)
ForwardClosure(S) == IF Successors(S) \subseteq S THEN S ELSE ForwardClosure(S \cup Successors(S))

RECURSIVE BackwardClosure(_)
BackwardClosure(S) == IF Predecessors(S) \subseteq S THEN S ELSE BackwardClosure(S \cup Predecessors(S))

\* A seed is a node whose own semantics is not Deterministic
SeedIds == {id \in InputNodeIds : OwnSemantics(id).nd # "Deterministic"}

NdEffectOf(id) == node_analyses[id].nd_effect
CalmOf(k) == edge_analyses[ir.edges[k].id].calm

HasNetworkTag(k) ==
    IsSome(ir.edges[k].semantic_tags) /\
    \E t \in 1..Len(Unwrap(ir.edges[k].semantic_tags)) : Unwrap(ir.edges[k].semantic_tags)[t] = "Network"

TargetsSink(k) ==
    ir.edges[k].target \in InputNodeIds /\ NodeOf(ir.edges[k].target).node_type = "Sink"

Critical(k) == HasNetworkTag(k) \/ TargetsSink(k)

\* The backward-reachable set of the target of edge k (empty when the target is missing)
Cone(k) ==
    IF ir.edges[k].target \in InputNodeIds THEN BackwardClosure({ir.edges[k].target}) ELSE {}

InCone(f, k) == ir.edges[f].source \in Cone(k) /\ ir.edges[f].target \in Cone(k)

NonMonotoneIn(R) == {id \in R : OwnSemantics(id).monotone = "Never"}

IssuesOfKind(issues, kind) == {j \in 1..Len(issues) : issues[j].kind = kind}

\* C1: ND soundness: in the result, every node forward-reachable (by zero or
\* more edges whose endpoints both exist) from a node whose own semantics is
\* not Deterministic has an nd_effect other than Deterministic.
C1_NdSoundness ==
    Done => \A s \in SeedIds : \A t \in ForwardClosure({s}) : NdEffectOf(t) # "Deterministic"

\* A node deterministic by its own semantics, tainted only through an
\* intermediate node (no seed is its direct predecessor).
C1_Witness ==
    /\ Done
    /\ \E s \in SeedIds : \E t \in ForwardClosure({s}) :
          /\ OwnSemantics(t).nd = "Deterministic"
          /\ t \notin Successors(SeedIds)
          /\ NdEffectOf(t) = "LocallyNonDet"

\* C2: ND precision: in the result, every node that is not forward-reachable
\* from any seed has nd_effect Deterministic.
C2_NdPrecision ==
    Done => \A t \in InputNodeIds \ ForwardClosure(SeedIds) : NdEffectOf(t) = "Deterministic"

\* A non-monotone node that feeds a seed and is reached by none stays Deterministic.
C2_Witness ==
    /\ Done
    /\ \E t \in InputNodeIds \ ForwardClosure(SeedIds) :
          /\ t \in Predecessors(SeedIds)
          /\ OwnSemantics(t).monotone = "Never"
          /\ NdEffectOf(t) = "Deterministic"

\* C3: CALM-safe necessity (nodes): for every critical edge E with its target
\* present that the result marks CalmSafe, every node of the backward-reachable
\* set of target(E), target(E) included, has monotone other than Never.
C3_CalmSafeNodes ==
    Done => \A k \in InputEdges :
               (Critical(k) /\ ir.edges[k].target \in InputNodeIds /\ CalmOf(k) = "CalmSafe")
                   => NonMonotoneIn(Cone(k)) = {}

\* A CalmSafe critical edge whose cone holds a node that is not a direct
\* predecessor of the target and a node of monotonicity Depends.
C3_Witness ==
    /\ Done
    /\ \E k \in InputEdges :
          /\ Critical(k) /\ ir.edges[k].target \in InputNodeIds /\ CalmOf(k) = "CalmSafe"
          /\ Cone(k) \ ({ir.edges[k].target} \cup Predecessors({ir.edges[k].target})) # {}
          /\ \E id \in Cone(k) : OwnSemantics(id).monotone = "Depends"

\* C4: CALM-safe necessity (edges): for every critical edge E that the result
\* marks CalmSafe, every input edge whose source and target are both in the
\* backward-reachable set of target(E) has a lattice type label, also when
\* several edges join the same ordered pair of nodes.
C4_CalmSafeEdges ==
    Done => \A k \in InputEdges :
               (Critical(k) /\ CalmOf(k) = "CalmSafe")
                   => \A f \in InputEdges : InCone(f, k) => is_lattice_type(ir.edges[f].label)

\* C5: CALM-unsafe witness: for every critical edge E that the result marks
\* CalmUnsafe, the backward-reachable set of target(E) holds a node of
\* monotonicity Never, or some input edge with both endpoints in the set has
\* a type label that is not a lattice type.
C5_CalmUnsafeWitness ==
    Done => \A k \in InputEdges :
               (Critical(k) /\ CalmOf(k) = "CalmUnsafe")
                   => \/ NonMonotoneIn(Cone(k)) # {}
                      \/ \E f \in InputEdges : InCone(f, k) /\ ~is_lattice_type(ir.edges[f].label)

\* A CalmUnsafe critical edge whose only witness is a non-lattice edge, in a
\* graph where a node of the cone also has an edge that leaves the cone.
C5_Witness ==
    /\ Done
    /\ \E k \in InputEdges :
          /\ Critical(k) /\ CalmOf(k) = "CalmUnsafe"
          /\ NonMonotoneIn(Cone(k)) = {}
          /\ \E f \in LinkedEdges : ir.edges[f].source \in Cone(k) /\ ir.edges[f].target \notin Cone(k)

\* C6: overall CALM consistency: overall.calm_safe is true exactly when every
\* critical edge (Network-tagged or targeting a Sink node) is CalmSafe in its
\* edge analysis; so it is true when there is no critical edge.
C6_OverallCalm ==
    Done => (overall.calm_safe <=> \A k \in InputEdges : Critical(k) => CalmOf(k) = "CalmSafe")

\* An unsafe critical edge followed, in the edge list, by a safe critical edge.
C6_Witness ==
    /\ Done
    /\ ~overall.calm_safe
    /\ \E k, j \in InputEdges :
          /\ k < j /\ Critical(k) /\ Critical(j)
          /\ CalmOf(k) = "CalmUnsafe" /\ CalmOf(j) = "CalmSafe"

\* C7: overall determinism consistency: overall.deterministic is true exactly
\* when every node analysis has nd_effect Deterministic (true without nodes).
C7_OverallDeterministic ==
    Done => (overall.deterministic <=> \A id \in InputNodeIds : NdEffectOf(id) = "Deterministic")

\* A result with a Deterministic node and a nondeterministic node.
C7_Witness ==
    /\ Done
    /\ ~overall.deterministic
    /\ \E id \in InputNodeIds : NdEffectOf(id) = "Deterministic"

\* C8: NonDet issue attribution: a node's issue list has an issue of kind
\* NonDet exactly when its nd_effect is not Deterministic; then there is one
\* such issue and its message is "Node '<id>' is nondeterministic (<effect>)"
\* with the node's nd_effect.
C8_NonDetIssue ==
    Done => \A id \in InputNodeIds :
               LET issues == node_analyses[id].issues
                   nondet == IssuesOfKind(issues, "NonDet")
               IN /\ (nondet # {}) <=> (NdEffectOf(id) # "Deterministic")
                  /\ nondet # {} =>
                        /\ Cardinality(nondet) = 1
                        /\ \A j \in nondet :
                              issues[j].message =
                                  <<"Node '", id, "' is nondeterministic (", NdEffectOf(id), ")">>

\* A node deterministic by its own semantics that inherits taint and bears the issue.
C8_Witness ==
    /\ Done
    /\ \E id \in InputNodeIds :
          /\ OwnSemantics(id).nd = "Deterministic"
          /\ NdEffectOf(id) = "LocallyNonDet"
          /\ IssuesOfKind(node_analyses[id].issues, "NonDet") # {}

\* C9: NonMonotone issue completeness: for every critical edge E marked
\* CalmUnsafe and every node N of monotonicity Never in the backward-reachable
\* set of target(E), N's issue list has a NonMonotone issue whose message
\* names N and E.
C9_NonMonotoneIssue ==
    Done => \A k \in InputEdges :
               (Critical(k) /\ CalmOf(k) = "CalmUnsafe")
                   => \A id \in NonMonotoneIn(Cone(k)) :
                         \E j \in IssuesOfKind(node_analyses[id].issues, "NonMonotone") :
                            node_analyses[id].issues[j].message =
                                <<"Node '", id, "' is non-monotone on CALM-critical path to edge '",
                                  ir.edges[k].id, "'">>

\* A non-monotone node in the cones of two CalmUnsafe critical edges, bearing
\* one NonMonotone issue for each.
C9_Witness ==
    /\ Done
    /\ \E k, j \in InputEdges : \E id \in InputNodeIds :
          /\ k # j
          /\ Critical(k) /\ CalmOf(k) = "CalmUnsafe" /\ id \in NonMonotoneIn(Cone(k))
          /\ Critical(j) /\ CalmOf(j) = "CalmUnsafe" /\ id \in NonMonotoneIn(Cone(j))
          /\ Cardinality(IssuesOfKind(node_analyses[id].issues, "NonMonotone")) = 2

\* C10: NonLattice issue completeness: for every critical edge E marked
\* CalmUnsafe and every input edge F with source and target both in the
\* backward-reachable set of target(E) and a type label that is not a lattice
\* type, F's issue list has a NonLattice issue naming E, also when several
\* edges join the same ordered pair of nodes.
C10_NonLatticeIssue ==
    Done => \A k \in InputEdges :
               (Critical(k) /\ CalmOf(k) = "CalmUnsafe")
                   => \A f \in InputEdges :
                         (InCone(f, k) /\ ~is_lattice_type(ir.edges[f].label))
                             => \E j \in IssuesOfKind(edge_analyses[ir.edges[f].id].issues, "NonLattice") :
                                   edge_analyses[ir.edges[f].id].issues[j].message =
                                       <<"Edge '", ir.edges[f].id,
                                         "' is non-lattice on CALM-critical path to edge '",
                                         ir.edges[k].id, "'">>

(***************************************************************************)
(* The scenarios of the test suite: chains 0 -> 1 -> ... of nodes built by *)
(* make_test_node, linked by edges built by make_test_edge.                *)
(***************************************************************************)
MaxChain == 3

ScenarioNodeIds == <<"0", "1", "2", "3", "4">>
ScenarioEdgeIds == <<"e0", "e1", "e2", "e3", "e4">>
ScenarioKinds == {"Source", "Transform", "NonDeterministic", "Sink"}

\* model::tests::make_test_node: labels "<id>_short", "<id>_full" and
\* "<id>_label", data with location 0 of type Process and backtrace []
make_test_node(id, node_type) ==
    [id |-> id, node_type |-> node_type,
     short_label |-> <<id, "_", "s", "h", "o", "r", "t">>,
     full_label |-> Some(<<id, "_", "f", "u", "l", "l">>),
     label |-> Some(<<id, "_", "l", "a", "b", "e", "l">>),
     data |-> Some([location_id |-> Some(0),
                    location_type |-> Some("Process"),
                    backtrace |-> [array |-> Some(<<>>)]])]

\* model::tests::make_test_edge: the tags given, no properties, no type label
make_test_edge(id, source, target, tags) ==
    [id |-> id, source |-> source, target |-> target,
     edge_properties |-> None, semantic_tags |-> Some(tags), label |-> None]

\* The tests set edge.label after make_test_edge where they want a lattice type.
ScenarioEdgeShapes ==
    [tags : {<<"Local">>, <<"Network">>},
     label : {None, Some(<<"S","e","t","U","n","i","o","n","<","i","3","2",">">>)}]

ScenarioChain(n, kinds, shapes) ==
    [nodes |-> [i \in 1..n |-> make_test_node(ScenarioNodeIds[i], kinds[i])],
     edges |-> [k \in 1..(n - 1) |->
                  [make_test_edge(ScenarioEdgeIds[k], ScenarioNodeIds[k], ScenarioNodeIds[k + 1],
                                  shapes[k].tags)
                   EXCEPT !.label = shapes[k].label]]]

\* The state run_analysis starts from, whatever the input
Fresh ==
    /\ pc = "build"
    /\ graph = EmptyGraph
    /\ tainted = {}
    /\ nd_effects = <<>>
    /\ worklist = <<>>
    /\ calm_results = EmptyCalm
    /\ node_analyses = <<>>
    /\ edge_analyses = <<>>
    /\ overall = EmptyOverall
    /\ annotated = None
    /\ reach = EmptyReach
    /\ visits = NoVisits

ScenarioInit ==
    /\ \E n \in 2..MaxChain :
          \E kinds \in [1..n -> ScenarioKinds] :
             \E shapes \in [1..(n - 1) -> ScenarioEdgeShapes] :
                ir = ScenarioChain(n, kinds, shapes)
    /\ Fresh

ScenarioSpec == ScenarioInit /\ [][Next]_vars

\* test_deterministic_graph: Source(0) -> Transform(1) -> Sink(2), tags Local
Scenario1 ==
    [nodes |-> << make_test_node("0", "Source"),
                  make_test_node("1", "Transform"),
                  make_test_node("2", "Sink") >>,
     edges |-> << make_test_edge("e0", "0", "1", <<"Local">>),
                  make_test_edge("e1", "1", "2", <<"Local">>) >>]

AllNodesDeterministic == \A id \in InputNodeIds : NdEffectOf(id) = "Deterministic"
NoNodeIssues == \A id \in InputNodeIds : node_analyses[id].issues = <<>>
NoEdgeIssues == \A k \in InputEdges : edge_analyses[ir.edges[k].id].issues = <<>>

MaxDownstream == 1

\* Operator labels: the special cases of get_node_semantics in the spelling
\* of the source and in other letter case, table labels, labels the table
\* does not have, and no label.
OperatorLabels ==
    { None,
      Some(<<"b","a","t","c","h">>),
      Some(<<"B","a","t","c","h">>),
      Some(<<"b","a","t","c","h","_","a","t","o","m","i","c">>),
      Some(<<"f","o","l","d">>),
      Some(<<"F","o","l","d">>),
      Some(<<"f","o","l","d","_","k","e","y","e","d">>),
      Some(<<"r","e","d","u","c","e">>),
      Some(<<"f","o","l","d","k","e","y","e","d">>),
      Some(<<"r","e","d","u","c","e","k","e","y","e","d">>),
      Some(<<"r","e","d","u","c","e","_","k","e","y","e","d">>),
      Some(<<"o","b","s","e","r","v","e","n","o","n","d","e","t">>),
      Some(<<"O","b","s","e","r","v","e","N","o","n","D","e","t">>),
      Some(<<"m","a","p">>),
      Some(<<"M","a","p">>),
      Some(<<"s","o","r","t">>),
      Some(<<"c","u","s","t","o","m">>),
      Some(<<>>) }

\* Node kinds: kinds of the get_semantics table, an unknown kind and a
\* known kind in another letter case.
LabelledKinds ==
    {"Source", "Transform", "Join", "Aggregation", "Network", "Sink", "Tee",
     "NonDeterministic", "Custom", "source"}

FrameNetworking == [file |-> Some(<<"x","/","n","e","t","w","o","r","k","i","n","g",".","r","s">>), function |-> Some(<<"m","a","i","n">>)]
FrameLocationMod == [file |-> Some(<<"l","o","c","a","t","i","o","n","/","m","o","d",".","r","s">>), function |-> None]
FrameCommutativeIdempotent == [file |-> Some(<<"m","a","i","n",".","r","s">>), function |-> Some(<<"f","o","l","d","_","c","o","m","m","u","t","a","t","i","v","e","_","i","d","e","m","p","o","t","e","n","t">>)]
FrameIdempotentCommutative == [file |-> None, function |-> Some(<<"i","d","e","m","p","o","t","e","n","t","_","c","o","m","m","u","t","a","t","i","v","e">>)]
FramePlain == [file |-> Some(<<"m","a","i","n",".","r","s">>), function |-> Some(<<"m","a","i","n">>)]
FrameSwapped == [file |-> Some(<<"c","o","m","m","u","t","a","t","i","v","e","_","i","d","e","m","p","o","t","e","n","t">>), function |-> Some(<<"n","e","t","w","o","r","k","i","n","g",".","r","s">>)]

\* NodeData: absent, a backtrace that is not a JSON array, and arrays of frames
NodeDataCases ==
    { None,
      Some([backtrace |-> [array |-> None]]),
      Some([backtrace |-> [array |-> Some(<<>>)]]),
      Some([backtrace |-> [array |-> Some(<<FrameNetworking>>)]]),
      Some([backtrace |-> [array |-> Some(<<FrameLocationMod>>)]]),
      Some([backtrace |-> [array |-> Some(<<FrameCommutativeIdempotent>>)]]),
      Some([backtrace |-> [array |-> Some(<<FrameIdempotentCommutative>>)]]),
      Some([backtrace |-> [array |-> Some(<<FramePlain>>)]]),
      Some([backtrace |-> [array |-> Some(<<FrameSwapped>>)]]),
      Some([backtrace |-> [array |-> Some(<<FramePlain, FrameNetworking>>)]]),
      Some([backtrace |-> [array |-> Some(<<FramePlain, FrameCommutativeIdempotent>>)]]) }

LabelledNode(kind, label, data) ==
    [id |-> NodeId(1), node_type |-> kind, label |-> label, data |-> data]

DownstreamNode(i) ==
    [id |-> NodeId(i), node_type |-> "Sink", label |-> None, data |-> None]

DownstreamEdge(k, label) ==
    [id |-> EdgeId(k), source |-> NodeId(k), target |-> NodeId(k + 1),
     semantic_tags |-> None, label |-> label]

LabelledInit ==
    /\ \E kind \in LabelledKinds, label \in OperatorLabels, data \in NodeDataCases :
          \E m \in 0..MaxDownstream :
             \E edge_label \in {None, Some(<<"S","e","t","U","n","i","o","n","<","i","3","2",">">>)} :
                ir = [nodes |-> [i \in 1..(m + 1) |->
                                   IF i = 1 THEN LabelledNode(kind, label, data)
                                            ELSE DownstreamNode(i)],
                      edges |-> [k \in 1..m |-> DownstreamEdge(k, edge_label)]]
    /\ Fresh

LabelledSpec == LabelledInit /\ [][Next]_vars


HasData(node) == IsSome(node.data)
NetworkBatchContext(node) == HasData(node) /\ is_network_batch(Unwrap(node.data).backtrace)

\* C12 (as stated): a node labelled "batch" is <Deterministic, Always> when a
\* backtrace frame's file contains networking.rs or location/mod.rs; without
\* such a frame it is locally nondeterministic by its own semantics, is an
\* ND seed, and every node forward-reachable from it is tainted.
C12_ManualVsNetworkBatch ==
    Done =>
        \A id \in InputNodeIds :
            NodeOf(id).label = Some(STR_batch) =>
                IF NetworkBatchContext(NodeOf(id))
                THEN OwnSemantics(id) = OpSemantics("Deterministic", "Always")
                ELSE /\ OwnSemantics(id).nd = "LocallyNonDet"
                     /\ id \in SeedIds
                     /\ \A t \in ForwardClosure({id}) : NdEffectOf(t) # "Deterministic"

\* An edge with a missing endpoint, and the adjacency entries that name an edge
Dangling(k) == ir.edges[k].source \notin InputNodeIds \/ ir.edges[k].target \notin InputNodeIds

AdjacencyEdgeIds ==
    UNION {{graph.forward[i][j][2] : j \in 1..Len(graph.forward[i])} : i \in 1..Len(graph.forward)}
    \cup
    UNION {{graph.backward[i][j][2] : j \in 1..Len(graph.backward[i])} : i \in 1..Len(graph.backward)}

DanglingRecord(k) ==
    /\ ir.edges[k].id \notin AdjacencyEdgeIds
    /\ edge_analyses[ir.edges[k].id].is_lattice = is_lattice_type(ir.edges[k].label)
    /\ edge_analyses[ir.edges[k].id].issues = <<>>

\* C13 (as stated): every edge whose source or target is missing from the
\* node set contributes no adjacency and gets is_lattice from its label,
\* calm = CalmSafe and no issues.
C13_DanglingEdges ==
    Done => \A k \in InputEdges : Dangling(k) => (DanglingRecord(k) /\ CalmOf(k) = "CalmSafe")

\* C13 (amended): every dangling edge contributes no adjacency and gets
\* is_lattice from its label and no issues; it is CalmSafe when its target
\* is missing or when it is not critical, but a critical edge of which only
\* the source is missing is judged by the cone of its target and is
\* CalmUnsafe when that cone holds a non-monotone node.
C13_DanglingEdgesAmended ==
    Done =>
        \A k \in InputEdges :
            Dangling(k) =>
                /\ DanglingRecord(k)
                /\ (ir.edges[k].target \notin InputNodeIds \/ ~Critical(k)) => CalmOf(k) = "CalmSafe"
                /\ (Critical(k) /\ NonMonotoneIn(Cone(k)) # {}) => CalmOf(k) = "CalmUnsafe"

\* Two dangling edges in one result: a Network-tagged one whose target is
\* missing, marked CalmSafe, and a Network-tagged one whose source alone is
\* missing, marked CalmUnsafe.
C13_Witness ==
    /\ Done
    /\ \E k \in InputEdges :
          /\ ir.edges[k].target \notin InputNodeIds
          /\ HasNetworkTag(k)
          /\ CalmOf(k) = "CalmSafe"
    /\ \E k \in InputEdges :
          /\ ir.edges[k].source \notin InputNodeIds
          /\ ir.edges[k].target \in InputNodeIds
          /\ CalmOf(k) = "CalmUnsafe"

\* C14: every edge that has no Network tag and whose target is not a node of
\* kind Sink is CalmSafe in the result, whatever non-monotone nodes and
\* non-lattice edges lie upstream of it.
C14_NonCriticalSafe ==
    Done => \A k \in InputEdges : (~HasNetworkTag(k) /\ ~TargetsSink(k)) => CalmOf(k) = "CalmSafe"

\* A non-critical edge without lattice type whose cone holds a non-monotone
\* node, next to a critical edge with the same target that is CalmUnsafe.
C14_Witness ==
    /\ Done
    /\ \E k \in LinkedEdges :
          /\ ~Critical(k)
          /\ ~is_lattice_type(ir.edges[k].label)
          /\ NonMonotoneIn(Cone(k)) # {}
          /\ CalmOf(k) = "CalmSafe"
          /\ \E f \in LinkedEdges :
                /\ ir.edges[f].target = ir.edges[k].target
                /\ Critical(f)
                /\ CalmOf(f) = "CalmUnsafe"

\* C15: the nd_effect of a tainted node depends only on its own semantics:
\* ExternalNonDet if its own nd is ExternalNonDet, LocallyNonDet otherwise
\* (also when it is Deterministic by itself and tainted by propagation);
\* ExternalNonDet is never given to a node whose own nd is not ExternalNonDet.
C15_TaintFlavor ==
    Done =>
        \A id \in InputNodeIds :
            /\ NdEffectOf(id) # "Deterministic" =>
                  NdEffectOf(id) = IF OwnSemantics(id).nd = "ExternalNonDet"
                                   THEN "ExternalNonDet" ELSE "LocallyNonDet"
            /\ NdEffectOf(id) = "ExternalNonDet" => OwnSemantics(id).nd = "ExternalNonDet"

\* A seed and a node that is Deterministic by itself, tainted by propagation,
\* both LocallyNonDet in one result.
C15_Witness ==
    /\ Done
    /\ \E s \in SeedIds : NdEffectOf(s) = "LocallyNonDet"
    /\ \E t \in InputNodeIds \ SeedIds :
          /\ t \in ForwardClosure(SeedIds)
          /\ NdEffectOf(t) = "LocallyNonDet"

\* The expect() calls of get_node_semantics: a panic when a special-cased
\* label, outside its context override, is missing from the label table.
get_node_semantics_panics(node) ==
    /\ IsSome(node.label)
    /\ LET label == Unwrap(node.label) IN
       \/ /\ label = STR_batch
          /\ ~(IsSome(node.data) /\ is_network_batch(Unwrap(node.data).backtrace))
          /\ ~IsSome(get_semantics_by_label(label))
       \/ /\ label \in FoldReduceLabels \/ label = STR_observenondet
          /\ label # STR_batch
          /\ ~(IsSome(node.data) /\ is_commutative_idempotent_fold(Unwrap(node.data).backtrace))
          /\ ~IsSome(get_semantics_by_label(label))

SpecialLabel(label) ==
    label = Some(STR_batch) \/ label = Some(STR_observenondet) \/
    (IsSome(label) /\ Unwrap(label) \in FoldReduceLabels)

InLabelTable(label) == IsSome(label) /\ IsSome(get_semantics_by_label(Unwrap(label)))

SameLabelUpToCase(a, b) ==
    IsSome(a) /\ IsSome(b) /\ ToLowercase(Unwrap(a)) = ToLowercase(Unwrap(b))

\* C17 (as stated): the semantics get_node_semantics assigns to a node does
\* not change when the letter case of its operator label changes, whatever
\* its kind and its backtrace.
C17_LabelCaseInsensitive ==
    Done =>
        \A i \in 1..Len(ir.nodes) :
            \A other \in OperatorLabels :
                SameLabelUpToCase(ir.nodes[i].label, other) =>
                    get_node_semantics([ir.nodes[i] EXCEPT !.label = other]) =
                        get_node_semantics(ir.nodes[i])

(***************************************************************************)
(* annotate.rs: the analysis results merged into the input.  A             *)
(* serde_json::Value is a pair <<type, payload>>; the payload of an object *)
(* is a function from its keys to values.                                  *)
(***************************************************************************)
JsonString(s) == <<"string", s>>
JsonNumber(n) == <<"number", n>>
JsonBool(b) == <<"bool", b>>
JsonArray(elements) == <<"array", elements>>
JsonObject(fields) == <<"object", fields>>

\* Value::as_object
IsJsonObject(v) == v[1] = "object"

\* Value::get with a string key: None unless v is an object that has the key
JsonGet(v, key) ==
    IF IsJsonObject(v) /\ key \in DOMAIN v[2] THEN Some(v[2][key]) ELSE None

\* Map::insert on the object v
JsonInsert(v, key, x) == JsonObject(Insert(v[2], key, x))

\* for (key, value) in additions { mappings.insert(key, value) }
JsonInsertAll(mappings, additions) == JsonObject(additions[2] @@ mappings[2])

\* The two badges are the characters U+2713 and U+26A0, written by name.
NodeAnalysisMappings ==
    JsonObject(
        [NondeterminismGroup |->
            JsonObject(
                [NonDetRoot |-> JsonObject(("color-token" :> JsonString("warning")) @@
                                           ("border-width" :> JsonNumber(3))),
                 NonDetInherited |-> JsonObject(("color-token" :> JsonString("warning-light")) @@
                                                ("border-style" :> JsonString("dashed"))),
                 Deterministic |-> JsonObject(("color-token" :> JsonString("default")))]),
         MonotonicityGroup |->
            JsonObject(
                [Monotone |-> JsonObject(("badge" :> JsonString("check mark"))),
                 NonMonotone |-> JsonObject(("badge" :> JsonString("warning sign")))])])

EdgeAnalysisMappings ==
    JsonObject(
        [LatticeGroup |->
            JsonObject(
                [Lattice |-> JsonObject(("color-token" :> JsonString("success"))),
                 NonLattice |-> JsonObject(("color-token" :> JsonString("danger")))]),
         CALMGroup |->
            JsonObject(
                [CalmSafe |-> JsonObject(("line-pattern" :> JsonString("solid")) @@
                                         ("line-width" :> JsonNumber(2))),
                 CalmUnsafe |-> JsonObject(("line-pattern" :> JsonString("dashed")) @@
                                           ("line-width" :> JsonNumber(3)))])])

DefaultNodeConfig ==
    JsonObject([defaultType |-> JsonString("Transform"),
                types |-> JsonArray(<<>>),
                semanticMappings |-> JsonObject(<<>>)])

DefaultEdgeConfig == JsonObject([semanticMappings |-> JsonObject(<<>>)])

\* config.get_mut("semanticMappings").and_then(|m| m.as_object_mut()) is Some
HasMappingsObject(config) ==
    IsSome(JsonGet(config, "semanticMappings")) /\
    IsJsonObject(Unwrap(JsonGet(config, "semanticMappings")))

\* create_enhanced_node_config: config.as_object_mut().unwrap() in the else
\* branch panics when the config is not a JSON object.
create_enhanced_node_config_panics(original) ==
    LET config == IF IsSome(original) THEN Unwrap(original) ELSE DefaultNodeConfig
    IN ~HasMappingsObject(config) /\ ~IsJsonObject(config)

create_enhanced_node_config(original) ==
    LET config == IF IsSome(original) THEN Unwrap(original) ELSE DefaultNodeConfig
    IN IF HasMappingsObject(config)
       THEN JsonInsert(config, "semanticMappings",
                       JsonInsertAll(Unwrap(JsonGet(config, "semanticMappings")), NodeAnalysisMappings))
       ELSE JsonInsert(config, "semanticMappings", NodeAnalysisMappings)

\* create_enhanced_edge_config: no else branch, the config is returned as it is
\* when it has no semanticMappings object.
create_enhanced_edge_config(original) ==
    LET config == IF IsSome(original) THEN Unwrap(original) ELSE DefaultEdgeConfig
    IN IF HasMappingsObject(config)
       THEN JsonInsert(config, "semanticMappings",
                       JsonInsertAll(Unwrap(JsonGet(config, "semanticMappings")), EdgeAnalysisMappings))
       ELSE config

\* results.node_analyses.get(&id) and results.edge_analyses.get(&id)
AnalysisOf(analyses, id) == IF id \in DOMAIN analyses THEN Some(analyses[id]) ELSE None

\* Mutant of NodeSemanticTags: the root tag is decided by the nd_effect of the
\* result, so a node tainted by propagation is tagged as a root.
NodeSemanticTags_ByEffect(node, analysis) ==
    <<node.node_type>> \o
    (IF IsSome(analysis)
     THEN << IF Unwrap(analysis).nd_effect # "Deterministic" THEN "NonDetRoot"
             ELSE "Deterministic",
             IF Unwrap(analysis).monotone THEN "Monotone" ELSE "NonMonotone" >>
     ELSE <<>>)

\* annotate: the semantic tags of a node
NodeSemanticTags(node, analysis) ==
    <<node.node_type>> \o
    (IF IsSome(analysis)
     THEN << IF get_node_semantics(node).nd # "Deterministic" THEN "NonDetRoot"
             ELSE IF Unwrap(analysis).nd_effect # "Deterministic" THEN "NonDetInherited"
             ELSE "Deterministic",
             IF Unwrap(analysis).monotone THEN "Monotone" ELSE "NonMonotone" >>
     ELSE <<>>)

AnnotatedNode(node, analysis) ==
    [id |-> node.id, node_type |-> node.node_type,
     semantic_tags |-> Some(NodeSemanticTags(node, analysis)),
     short_label |-> node.short_label, full_label |-> node.full_label,
     label |-> node.label, data |-> node.data, analysis |-> analysis]

\* Mutant of EdgeSemanticTags: the analysis tags replace the tags of the input.
EdgeSemanticTags_Replace(edge, analysis) ==
    IF IsSome(analysis)
    THEN << IF Unwrap(analysis).is_lattice THEN "Lattice" ELSE "NonLattice",
            Unwrap(analysis).calm >>
    ELSE IF IsSome(edge.semantic_tags) THEN Unwrap(edge.semantic_tags) ELSE <<>>

\* annotate: the semantic tags of an edge
EdgeSemanticTags(edge, analysis) ==
    (IF IsSome(edge.semantic_tags) THEN Unwrap(edge.semantic_tags) ELSE <<>>) \o
    (IF IsSome(analysis)
     THEN << IF Unwrap(analysis).is_lattice THEN "Lattice" ELSE "NonLattice",
             Unwrap(analysis).calm >>
     ELSE <<>>)

AnnotatedEdge(edge, analysis) ==
    [id |-> edge.id, source |-> edge.source, target |-> edge.target,
     edge_properties |-> edge.edge_properties,
     semantic_tags |-> Some(EdgeSemanticTags(edge, analysis)),
     label |-> edge.label, analysis |-> analysis]

annotate(input, results) ==
    [nodes |-> [i \in 1..Len(input.nodes) |->
                   AnnotatedNode(input.nodes[i], AnalysisOf(results.node_analyses, input.nodes[i].id))],
     edges |-> [k \in 1..Len(input.edges) |->
                   AnnotatedEdge(input.edges[k], AnalysisOf(results.edge_analyses, input.edges[k].id))],
     overall |-> Some(results.overall),
     hierarchy_choices |-> input.hierarchy_choices,
     node_assignments |-> input.node_assignments,
     selected_hierarchy |-> input.selected_hierarchy,
     edge_style_config |-> Some(create_enhanced_edge_config(input.edge_style_config)),
     node_type_config |-> Some(create_enhanced_node_config(input.node_type_config)),
     legend |-> input.legend]

(***************************************************************************)
(* The inputs of annotate: chains of test nodes of every node shape, with  *)
(* the optional top-level keys of the input in the combinations below.     *)
(***************************************************************************)
HierarchyChoicesJson == JsonArray(<<JsonObject([id |-> JsonString("location")])>>)
NodeAssignmentsJson == JsonObject([location |-> JsonObject(("0" :> JsonString("loc_0")))])
LegendJson == JsonObject([show |-> JsonBool(TRUE)])

NoOptionalKeys ==
    [hierarchy_choices |-> None, node_assignments |-> None, selected_hierarchy |-> None,
     edge_style_config |-> None, node_type_config |-> None, legend |-> None]

\* test_json_serialization: every optional key present, configs without semanticMappings
SerializationTestKeys ==
    [hierarchy_choices |-> Some(HierarchyChoicesJson),
     node_assignments |-> Some(NodeAssignmentsJson),
     selected_hierarchy |-> Some("location"),
     edge_style_config |-> Some(JsonObject(("default" :> JsonString("solid")))),
     node_type_config |-> Some(JsonObject([defaultType |-> JsonString("Transform")])),
     legend |-> Some(LegendJson)]

OptionalKeyCases ==
    { NoOptionalKeys,
      SerializationTestKeys,
      \* configs with an empty semanticMappings object
      [NoOptionalKeys EXCEPT
          !.edge_style_config = Some(JsonObject([semanticMappings |-> JsonObject(<<>>)])),
          !.node_type_config = Some(JsonObject([defaultType |-> JsonString("Transform"),
                                                semanticMappings |-> JsonObject(<<>>)]))],
      \* configs whose semanticMappings has groups of its own, one of them
      \* under a name the analysis uses
      [NoOptionalKeys EXCEPT
          !.edge_style_config =
              Some(JsonObject(("default" :> JsonString("solid")) @@
                              ("semanticMappings" :>
                                  JsonObject([CALMGroup |-> JsonString("old"),
                                              NetworkGroup |-> JsonObject([Network |-> JsonString("animated")])])))),
          !.node_type_config =
              Some(JsonObject([semanticMappings |->
                                  JsonObject([MonotonicityGroup |-> JsonString("old"),
                                              KindGroup |-> JsonObject([Source |-> JsonString("green")])])]))],
      \* configs whose semanticMappings is not an object
      [NoOptionalKeys EXCEPT
          !.edge_style_config = Some(JsonObject([semanticMappings |-> JsonString("none")])),
          !.node_type_config = Some(JsonObject([semanticMappings |-> JsonString("none")]))],
      \* an edge config that is not an object
      [NoOptionalKeys EXCEPT !.edge_style_config = Some(JsonArray(<<JsonString("solid")>>))],
      \* a node config that is not an object
      [NoOptionalKeys EXCEPT !.node_type_config = Some(JsonString("Transform"))] }

AnnotateEdgeShapes ==
    { [semantic_tags |-> None, edge_properties |-> None, label |-> None],
      [semantic_tags |-> Some(<<"Local">>), edge_properties |-> Some(<<"Stream">>),
       label |-> Some(<<"S","e","t","U","n","i","o","n","<","i","3","2",">">>)],
      [semantic_tags |-> Some(<<"Network", "Unbounded">>), edge_properties |-> None, label |-> None],
      [semantic_tags |-> Some(<<"Network">>), edge_properties |-> Some(<<"Keyed", "NoOrder">>),
       label |-> Some(<<"S","e","t","U","n","i","o","n","<","i","3","2",">">>)] }

AnnotateChain(n, shapes, edge_shapes, keys) ==
    [nodes |-> [i \in 1..n |->
                  [make_test_node(ScenarioNodeIds[i], NodeShapes[shapes[i]].node_type)
                   EXCEPT !.label = NodeShapes[shapes[i]].label]],
     edges |-> [k \in 1..(n - 1) |->
                  [make_test_edge(ScenarioEdgeIds[k], ScenarioNodeIds[k], ScenarioNodeIds[k + 1], <<>>)
                   EXCEPT !.semantic_tags = edge_shapes[k].semantic_tags,
                          !.edge_properties = edge_shapes[k].edge_properties,
                          !.label = edge_shapes[k].label]]]
    @@ keys

AnnotateInit ==
    /\ \E n \in 2..MaxChain :
          \E shapes \in [1..n -> 1..Len(NodeShapes)] :
             \E edge_shapes \in [1..(n - 1) -> AnnotateEdgeShapes] :
                \E keys \in OptionalKeyCases :
                   ir = AnnotateChain(n, shapes, edge_shapes, keys)
    /\ Fresh

\* main: annotate_and_serialize(&ir, &results) after run_analysis; the unwrap
\* of create_enhanced_node_config ends the program without an output.
Annotate ==
    /\ pc = "done"
    /\ IF create_enhanced_node_config_panics(ir.node_type_config)
       THEN /\ annotated' = None
            /\ pc' = "panic"
       ELSE /\ annotated' = Some(annotate(ir, [node_analyses |-> node_analyses,
                                               edge_analyses |-> edge_analyses,
                                               overall |-> overall]))
            /\ pc' = "annotated"
    /\ UNCHANGED <<reach, visits, ir, graph, tainted, nd_effects, worklist, calm_results,
                   node_analyses, edge_analyses, overall>>

AnnotateNext == Next \/ Annotate

AnnotateSpec == AnnotateInit /\ [][AnnotateNext]_vars

Annotated == pc = "annotated"
Output == Unwrap(annotated)

\* C18: every annotated node's semanticTags is [kind, X, Y] with X one of
\* NonDetRoot, NonDetInherited, Deterministic and Y one of Monotone,
\* NonMonotone; X is NonDetRoot iff the node's own nd is not Deterministic,
\* NonDetInherited iff its own nd is Deterministic and its nd_effect is not,
\* Deterministic otherwise; Y is Monotone iff its own monotone is not Never.
C18_RootInheritedTags ==
    Annotated =>
        \A i \in 1..Len(Output.nodes) :
            LET id == ir.nodes[i].id
                tags == Unwrap(Output.nodes[i].semantic_tags)
                root == OwnSemantics(id).nd # "Deterministic"
                inherited == ~root /\ NdEffectOf(id) # "Deterministic"
            IN /\ IsSome(Output.nodes[i].semantic_tags)
               /\ Len(tags) = 3
               /\ tags[1] = ir.nodes[i].node_type
               /\ tags[2] \in {"NonDetRoot", "NonDetInherited", "Deterministic"}
               /\ tags[3] \in {"Monotone", "NonMonotone"}
               /\ tags[2] = "NonDetRoot" <=> root
               /\ tags[2] = "NonDetInherited" <=> inherited
               /\ tags[2] = "Deterministic" <=> (~root /\ ~inherited)
               /\ tags[3] = "Monotone" <=> OwnSemantics(id).monotone # "Never"

\* One output with a deterministic node, a root and a node that inherits.
C18_Witness ==
    /\ Annotated
    /\ \E i, j, k \in 1..Len(Output.nodes) :
          /\ Output.nodes[i].semantic_tags = Some(<<"Source", "Deterministic", "Monotone">>)
          /\ Output.nodes[j].semantic_tags = Some(<<"NonDeterministic", "NonDetRoot", "NonMonotone">>)
          /\ Output.nodes[k].semantic_tags = Some(<<"Sink", "NonDetInherited", "Monotone">>)

InputTags(k) == IF IsSome(ir.edges[k].semantic_tags) THEN Unwrap(ir.edges[k].semantic_tags) ELSE <<>>

NodeEchoed(i) ==
    /\ Output.nodes[i].id = ir.nodes[i].id
    /\ Output.nodes[i].node_type = ir.nodes[i].node_type
    /\ Output.nodes[i].short_label = ir.nodes[i].short_label
    /\ Output.nodes[i].full_label = ir.nodes[i].full_label
    /\ Output.nodes[i].label = ir.nodes[i].label
    /\ Output.nodes[i].data = ir.nodes[i].data
    /\ Output.nodes[i].analysis = Some(node_analyses[ir.nodes[i].id])

EdgeEchoed(k) ==
    /\ Output.edges[k].id = ir.edges[k].id
    /\ Output.edges[k].source = ir.edges[k].source
    /\ Output.edges[k].target = ir.edges[k].target
    /\ Output.edges[k].edge_properties = ir.edges[k].edge_properties
    /\ Output.edges[k].label = ir.edges[k].label
    /\ Output.edges[k].analysis = Some(edge_analyses[ir.edges[k].id])

\* C19: annotate returns the nodes and edges of the input in the same order
\* and number, each with its id, kind, labels, data, source, target,
\* edgeProperties and type label unchanged and with its analysis attached;
\* the semanticTags of every output edge are its input tags followed by one
\* of Lattice / NonLattice, matching is_lattice, and by its calm status;
\* hierarchyChoices, nodeAssignments, selectedHierarchy and legend are
\* copied unchanged and overall is present.
C19_OutputPreservation ==
    Annotated =>
        /\ Len(Output.nodes) = Len(ir.nodes)
        /\ Len(Output.edges) = Len(ir.edges)
        /\ \A i \in 1..Len(ir.nodes) : NodeEchoed(i)
        /\ \A k \in 1..Len(ir.edges) :
              /\ EdgeEchoed(k)
              /\ Output.edges[k].semantic_tags =
                    Some(InputTags(k) \o
                         << IF edge_analyses[ir.edges[k].id].is_lattice THEN "Lattice" ELSE "NonLattice",
                            edge_analyses[ir.edges[k].id].calm >>)
        /\ Output.hierarchy_choices = ir.hierarchy_choices
        /\ Output.node_assignments = ir.node_assignments
        /\ Output.selected_hierarchy = ir.selected_hierarchy
        /\ Output.legend = ir.legend
        /\ Output.overall = Some(overall)

\* An output of two edges with every optional key present: an edge with two
\* input tags that gets four, and an edge without tags that gets two.
C19_Witness ==
    /\ Annotated
    /\ IsSome(ir.hierarchy_choices) /\ IsSome(ir.legend) /\ IsSome(ir.selected_hierarchy)
    /\ Len(Output.edges) = 2
    /\ \E k, f \in 1..Len(Output.edges) :
          /\ Len(InputTags(k)) = 2
          /\ Output.edges[k].semantic_tags = Some(<<"Network", "Unbounded", "NonLattice", "CalmUnsafe">>)
          /\ ir.edges[f].semantic_tags = None
          /\ Len(Unwrap(Output.edges[f].semantic_tags)) = 2

ClaimedEdgeConfigInput(config) ==
    \/ config = None
    \/ IsSome(config) /\ IsJsonObject(Unwrap(config)) /\
       (HasMappingsObject(Unwrap(config)) \/ "semanticMappings" \notin DOMAIN Unwrap(config)[2])

HasEdgeMappings(config) ==
    /\ IsSome(config)
    /\ HasMappingsObject(Unwrap(config))
    /\ LET mappings == Unwrap(JsonGet(Unwrap(config), "semanticMappings")) IN
       /\ JsonGet(mappings, "LatticeGroup") = JsonGet(EdgeAnalysisMappings, "LatticeGroup")
       /\ JsonGet(mappings, "CALMGroup") = JsonGet(EdgeAnalysisMappings, "CALMGroup")
       /\ IsSome(JsonGet(mappings, "CALMGroup"))

\* C20 (as stated): whether the input edgeStyleConfig is absent, an object
\* with a semanticMappings object or an object without semanticMappings, the
\* output edgeStyleConfig has a semanticMappings object with the LatticeGroup
\* (Lattice, NonLattice) and the CALMGroup (CalmSafe solid / 2, CalmUnsafe
\* dashed / 3) of the analysis.
C20_EdgeConfigEnrichment ==
    (Annotated /\ ClaimedEdgeConfigInput(ir.edge_style_config)) =>
        HasEdgeMappings(Output.edge_style_config)

KnownMonotoneKinds == {"Source", "Transform", "Join", "Network", "Sink", "Tee"}

KindTableEntry(kind) ==
    IF kind \in KnownMonotoneKinds THEN OpSemantics("Deterministic", "Always")
    ELSE IF kind = "Aggregation" THEN OpSemantics("Deterministic", "Depends")
    ELSE OpSemantics("LocallyNonDet", "Never")

\* C21: get_semantics maps Source, Transform, Join, Network, Sink and Tee to
\* <Deterministic, Always>, Aggregation to <Deterministic, Depends>,
\* NonDeterministic and every other string, compared with letter case, to
\* <LocallyNonDet, Never>; an unlabelled node of unknown kind is an ND seed,
\* gets nd_effect LocallyNonDet and is not monotone in the result.
C21_KindTable ==
    Done =>
        \A i \in 1..Len(ir.nodes) :
            LET node == ir.nodes[i] IN
            /\ get_semantics(node.node_type) = KindTableEntry(node.node_type)
            /\ (node.label = None /\ node.node_type \notin KnownMonotoneKinds \cup {"Aggregation"}) =>
                  /\ node.id \in SeedIds
                  /\ NdEffectOf(node.id) = "LocallyNonDet"
                  /\ ~node_analyses[node.id].monotone

\* An unlabelled node whose kind is a known kind in another letter case: it is
\* a seed, and its successor is tainted.
C21_Witness ==
    /\ Done
    /\ Len(ir.nodes) = 2
    /\ ir.nodes[1].label = None
    /\ ir.nodes[1].node_type = "source"
    /\ NdEffectOf(ir.nodes[1].id) = "LocallyNonDet"
    /\ ~node_analyses[ir.nodes[1].id].monotone
    /\ NdEffectOf(ir.nodes[2].id) = "LocallyNonDet"

(***************************************************************************)
(* Type labels: one edge n1 -> n2 whose type label is drawn from labels    *)
(* naming each lattice type, labels naming none, and no label.  Each case  *)
(* records whether the label names a lattice type.                         *)
(***************************************************************************)
TypeLabelCases ==
    {
      [label |-> None, lattice |-> FALSE],
      [label |-> Some(<<"l","a","t","t","i","c","e","s",":",":","s","e","t","_","u","n","i","o","n",":",":","S","e","t","U","n","i","o","n","H","a","s","h","S","e","t">>), lattice |-> TRUE],
      [label |-> Some(<<"M","a","x","<","u","6","4",">">>), lattice |-> TRUE],
      [label |-> Some(<<"M","i","n","<","u","6","4",">">>), lattice |-> TRUE],
      [label |-> Some(<<"D","o","m","P","a","i","r","<","a",",","b",">">>), lattice |-> TRUE],
      [label |-> Some(<<"S","e","t","U","n","i","o","n","<","i","3","2",">">>), lattice |-> TRUE],
      [label |-> Some(<<"M","a","p","U","n","i","o","n","<","k",",","v",">">>), lattice |-> TRUE],
      [label |-> Some(<<"V","e","c","U","n","i","o","n","<","x",">">>), lattice |-> TRUE],
      [label |-> Some(<<"W","i","t","h","B","o","t","<","x",">">>), lattice |-> TRUE],
      [label |-> Some(<<"W","i","t","h","T","o","p","<","x",">">>), lattice |-> TRUE],
      [label |-> Some(<<"C","o","n","f","l","i","c","t","<","x",">">>), lattice |-> TRUE],
      [label |-> Some(<<"P","o","i","n","t","<","x",">">>), lattice |-> TRUE],
      [label |-> Some(<<"P","a","i","r","<","a",",","b",">">>), lattice |-> TRUE],
      [label |-> Some(<<"C","a","u","s","a","l","W","r","a","p","p","e","r","<","x",">">>), lattice |-> TRUE],
      [label |-> Some(<<"V","C","W","r","a","p","p","e","r","<","x",">">>), lattice |-> TRUE],
      [label |-> Some(<<"S","e","t","U","n","i","o","n","W","i","t","h","T","o","m","b","s","t","o","n","e","s","<","x",">">>), lattice |-> TRUE],
      [label |-> Some(<<"S","t","r","e","a","m","<","S","e","t","U","n","i","o","n","<","S","t","r","i","n","g",">",">">>), lattice |-> TRUE],
      [label |-> Some(<<>>), lattice |-> FALSE],
      [label |-> Some(<<"S","e","t","U","n","i","o","n">>), lattice |-> FALSE],
      [label |-> Some(<<"S","t","r","e","a","m","<","S","t","r","i","n","g",">">>), lattice |-> FALSE],
      [label |-> Some(<<"s","e","t","u","n","i","o","n","<","i","3","2",">">>), lattice |-> FALSE],
      [label |-> Some(<<"l","a","t","t","i","c","e","s",":">>), lattice |-> FALSE],
      [label |-> Some(<<"M","a","x"," ","<","u","6","4",">">>), lattice |-> FALSE],
      [label |-> Some(<<"V","e","c","<","i","3","2",">">>), lattice |-> FALSE],
      [label |-> Some(<<"C","a","u","s","a","l","W","r","a","p","p","e","r">>), lattice |-> FALSE] }

TypeLabels == {c.label : c \in TypeLabelCases}

PlainNode(i, kind) == [id |-> NodeId(i), node_type |-> kind, label |-> None, data |-> None]

TypeLabelInit ==
    /\ \E source_kind \in {"Source", "NonDeterministic"}, target_kind \in {"Transform", "Sink"} :
          \E tags \in {None, Some(<<"Network">>)}, label \in TypeLabels :
             ir = [nodes |-> <<PlainNode(1, source_kind), PlainNode(2, target_kind)>>,
                   edges |-> <<[id |-> EdgeId(1), source |-> NodeId(1), target |-> NodeId(2),
                                semantic_tags |-> tags, label |-> label]>>]
    /\ Fresh

TypeLabelSpec == TypeLabelInit /\ [][Next]_vars

NamesLattice(label) == (CHOOSE c \in TypeLabelCases : c.label = label).lattice

\* C22: is_lattice_type(label) is true exactly when the label is present and
\* contains one of the fifteen lattice substrings; an absent label and a
\* lattice name without its '<' are not lattice; the is_lattice of every edge
\* analysis is this value.
C22_LatticeTest ==
    Done =>
        \A k \in InputEdges :
            /\ is_lattice_type(ir.edges[k].label) = NamesLattice(ir.edges[k].label)
            /\ edge_analyses[ir.edges[k].id].is_lattice = NamesLattice(ir.edges[k].label)

\* A critical edge labelled with a lattice name without its '<': not lattice,
\* and CalmUnsafe for that reason alone.
C22_Witness ==
    /\ Done
    /\ \E k \in InputEdges :
          /\ ir.edges[k].label = Some(<<"S","e","t","U","n","i","o","n">>)
          /\ ~edge_analyses[ir.edges[k].id].is_lattice
          /\ NonMonotoneIn(Cone(k)) = {}
          /\ CalmOf(k) = "CalmUnsafe"

UnsafeCritical(k) == Critical(k) /\ CalmOf(k) = "CalmUnsafe"

\* C23: CALM issue soundness: a NonMonotone issue sits only on a node whose
\* semantics has monotone = Never, a NonLattice issue only on an edge whose
\* is_lattice is false, and either only when the offender lies in the
\* backward-reachable set of the target of a critical edge marked CalmUnsafe;
\* none appears when overall.calm_safe is true.
C23_CalmIssueSoundness ==
    Done =>
        /\ \A id \in InputNodeIds :
              IssuesOfKind(node_analyses[id].issues, "NonMonotone") # {}
                  => /\ OwnSemantics(id).monotone = "Never"
                     /\ ~node_analyses[id].monotone
                     /\ \E k \in InputEdges : UnsafeCritical(k) /\ id \in Cone(k)
        /\ \A f \in InputEdges :
              IssuesOfKind(edge_analyses[ir.edges[f].id].issues, "NonLattice") # {}
                  => /\ ~edge_analyses[ir.edges[f].id].is_lattice
                     /\ \E k \in InputEdges : UnsafeCritical(k) /\ InCone(f, k)
        /\ overall.calm_safe
              => /\ \A id \in InputNodeIds : IssuesOfKind(node_analyses[id].issues, "NonMonotone") = {}
                 /\ \A f \in InputEdges :
                       IssuesOfKind(edge_analyses[ir.edges[f].id].issues, "NonLattice") = {}

\* A CalmUnsafe critical edge whose cone holds a lattice edge without issue
\* and a non-lattice edge with one, next to a non-monotone node outside every
\* such cone, which has no NonMonotone issue, and one inside, which has.
C23_Witness ==
    /\ Done
    /\ \E k, f, h \in InputEdges :
          /\ UnsafeCritical(k) /\ InCone(f, k) /\ InCone(h, k)
          /\ edge_analyses[ir.edges[f].id].is_lattice
          /\ edge_analyses[ir.edges[f].id].issues = <<>>
          /\ IssuesOfKind(edge_analyses[ir.edges[h].id].issues, "NonLattice") # {}
    /\ \E id, od \in InputNodeIds :
          /\ OwnSemantics(id).monotone = "Never" /\ OwnSemantics(od).monotone = "Never"
          /\ IssuesOfKind(node_analyses[id].issues, "NonMonotone") # {}
          /\ IssuesOfKind(node_analyses[od].issues, "NonMonotone") = {}

PairwiseDistinctMessages(issues) ==
    \A a, b \in 1..Len(issues) : issues[a].message = issues[b].message => a = b

\* C24: distinct issue messages: in the issue list of every node and of every
\* edge the messages are pairwise distinct, so an offender has at most one
\* NonMonotone or NonLattice issue for a given CalmUnsafe critical edge, also
\* when several edges join the same ordered pair of nodes.
C24_DistinctMessages ==
    Done =>
        /\ \A id \in InputNodeIds : PairwiseDistinctMessages(node_analyses[id].issues)
        /\ \A f \in InputEdges : PairwiseDistinctMessages(edge_analyses[ir.edges[f].id].issues)

\* The backtrace of the node is an array holding one of the two frames of the
\* model whose function name has commutative_idempotent or idempotent_commutative
HasCiFrame(node) ==
    /\ HasData(node)
    /\ IsSome(Unwrap(node.data).backtrace.array)
    /\ \E k \in 1..Len(Unwrap(Unwrap(node.data).backtrace.array)) :
          Unwrap(Unwrap(node.data).backtrace.array)[k]
              \in {FrameCommutativeIdempotent, FrameIdempotentCommutative}

TaggedNonDetRoot(node) ==
    LET tags == NodeSemanticTags(node, AnalysisOf(node_analyses, node.id))
    IN \E t \in 1..Len(tags) : tags[t] = "NonDetRoot"

\* C25: observenondet context override: a node labelled "observenondet" is
\* <Deterministic, Always> exactly when a frame of its backtrace has a function
\* name containing commutative_idempotent or idempotent_commutative.  With such
\* a frame it is no ND seed and makes no critical edge downstream CalmUnsafe;
\* without one, or without backtrace data, it is <LocallyNonDet, Never>, seeds
\* taint and is tagged NonDetRoot.
C25_ObserveNonDetOverride ==
    Done =>
        \A i \in 1..Len(ir.nodes) :
            LET node == ir.nodes[i] IN
            node.label = Some(STR_observenondet) =>
                /\ (get_node_semantics(node) = OpSemantics("Deterministic", "Always")) <=> HasCiFrame(node)
                /\ HasCiFrame(node) =>
                      /\ node.id \notin SeedIds
                      /\ NdEffectOf(node.id) = "Deterministic"
                      /\ node_analyses[node.id].monotone
                      /\ ~TaggedNonDetRoot(node)
                      /\ \A k \in InputEdges :
                            (Critical(k) /\ node.id \in Cone(k) /\ CalmOf(k) = "CalmUnsafe")
                                => \E f \in InputEdges :
                                      InCone(f, k) /\ ~is_lattice_type(ir.edges[f].label)
                /\ ~HasCiFrame(node) =>
                      /\ get_node_semantics(node) = OpSemantics("LocallyNonDet", "Never")
                      /\ node.id \in SeedIds
                      /\ \A id \in ForwardClosure({node.id}) : NdEffectOf(id) = "LocallyNonDet"
                      /\ TaggedNonDetRoot(node)
                      /\ \A k \in InputEdges :
                            (Critical(k) /\ node.id \in Cone(k)) => CalmOf(k) = "CalmUnsafe"

\* An observenondet node inside a commutative and idempotent fold, upstream of
\* a critical edge with a lattice label, which stays CalmSafe.
C25_Witness ==
    /\ Done
    /\ Len(ir.nodes) = 2
    /\ ir.nodes[1].label = Some(STR_observenondet)
    /\ ir.nodes[1].node_type = "NonDeterministic"
    /\ HasCiFrame(ir.nodes[1])
    /\ NdEffectOf(ir.nodes[1].id) = "Deterministic"
    /\ Critical(1) /\ ir.nodes[1].id \in Cone(1)
    /\ CalmOf(1) = "CalmSafe"

(***************************************************************************)
(* The worklist loops, step by step: run_nd_pass as in run_analysis, then  *)
(* one call of compute_backward_reachable with each iteration of its       *)
(* while loop a step.  The graphs have cycles, self-loops and up to        *)
(* MaxLoopEdges edges between the same ordered pair of nodes.              *)
(***************************************************************************)
MaxLoopEdges == 3

LoopEdge(k, source, target) ==
    [id |-> EdgeId(k), source |-> NodeId(source), target |-> NodeId(target),
     semantic_tags |-> None, label |-> None]

WorklistInit ==
    /\ \E n \in 1..MaxNodes, m \in 0..MaxLoopEdges :
          \E kinds \in [1..n -> {"Source", "NonDeterministic"}] :
             \E ends \in [1..m -> (1..n) \X (1..n)] :
                ir = [nodes |-> [i \in 1..n |-> PlainNode(i, kinds[i])],
                      edges |-> [k \in 1..m |-> LoopEdge(k, ends[k][1], ends[k][2])]]
    /\ Fresh

\* compute_backward_reachable(graph, target_idx): the worklist and the
\* reachable set start with target_idx
ReachStart ==
    /\ pc = "calm"
    /\ \E target_idx \in 1..Len(ir.nodes) :
          /\ reach' = [target_idx |-> Some(target_idx), reachable |-> {target_idx},
                       worklist |-> <<target_idx>>]
          /\ visits' = [visits EXCEPT !.reach_pushed = Counted(<<>>, <<target_idx>>),
                                      !.reach_popped = <<>>]
    /\ pc' = "reach_loop"
    /\ UNCHANGED <<annotated, ir, graph, tainted, nd_effects, worklist, calm_results,
                   node_analyses, edge_analyses, overall>>

\* compute_backward_reachable: one iteration of while let Some(node_idx) = worklist.pop()
ReachStep ==
    /\ pc = "reach_loop"
    /\ reach.worklist # <<>>
    /\ LET node_idx == reach.worklist[Len(reach.worklist)]
           st == BackwardVisit(graph.backward[node_idx], 1,
                               [reachable |-> reach.reachable,
                                worklist |-> SubSeq(reach.worklist, 1, Len(reach.worklist) - 1)])
       IN /\ reach' = [reach EXCEPT !.reachable = st.reachable, !.worklist = st.worklist]
          /\ visits' = [visits EXCEPT !.reach_popped = Counted(@, <<node_idx>>),
                                      !.reach_pushed = Counted(@, Pushed(reach.worklist, st.worklist))]
    /\ UNCHANGED <<annotated, ir, pc, graph, tainted, nd_effects, worklist, calm_results,
                   node_analyses, edge_analyses, overall>>

\* compute_backward_reachable: the worklist is empty, reachable is returned
ReachReturn ==
    /\ pc = "reach_loop"
    /\ reach.worklist = <<>>
    /\ pc' = "reach_done"
    /\ UNCHANGED <<annotated, reach, visits, ir, graph, tainted, nd_effects, worklist, calm_results,
                   node_analyses, edge_analyses, overall>>

WorklistNext == BuildGraph \/ NdSeed \/ NdStep \/ NdFinish \/ ReachStart \/ ReachStep \/ ReachReturn

\* The code is sequential: a step that can be taken is taken.
WorklistSpec == WorklistInit /\ [][WorklistNext]_vars /\ WF_vars(WorklistNext)

AtMostOnce(counts) == \A i \in DOMAIN counts : counts[i] <= 1

SingleVisit ==
    /\ AtMostOnce(visits.nd_pushed) /\ AtMostOnce(visits.nd_popped)
    /\ AtMostOnce(visits.reach_pushed) /\ AtMostOnce(visits.reach_popped)

\* C26: termination and single visit: on every graph, with cycles, self-loops
\* and parallel edges, the worklist loop of the ND pass and the worklist loop
\* of backward reachability both come to an end, and no node is pushed onto,
\* or popped from, one worklist more than once.
C26_TerminationSingleVisit ==
    /\ []SingleVisit
    /\ <>(pc = "calm")
    /\ [](pc = "reach_loop" => <>(pc = "reach_done"))

\* Both loops have ended on a graph with a cycle through all three nodes and
\* two parallel edges, every node having been pushed and popped once by each.
C26_Witness ==
    /\ pc = "reach_done"
    /\ Len(ir.nodes) = 3
    /\ \E a, b \in InputEdges : a # b /\ ir.edges[a].source = ir.edges[b].source
                                      /\ ir.edges[a].target = ir.edges[b].target
    /\ reach.reachable = 1..3
    /\ tainted = 1..3
    /\ \A i \in 1..3 : /\ visits.nd_pushed[i] = 1 /\ visits.nd_popped[i] = 1
                       /\ visits.reach_pushed[i] = 1 /\ visits.reach_popped[i] = 1

\* The input edges in another order
PermutedEdges(perm) == [k \in 1..Len(ir.edges) |-> ir.edges[perm[k]]]

NdEffectsIndependent(edges) ==
    \A order \in IterOrders(NdSeedIdx(ir.nodes)) :
        LET effects == run_nd_pass(Graph_build(ir.nodes, edges), ir.nodes, order)
        IN /\ \A id \in InputNodeIds : effects[id] = NdEffectOf(id)
           /\ OverallDeterministic(effects) = overall.deterministic

CalmIndependent(edges) ==
    LET calm == run_calm_pass(Graph_build(ir.nodes, edges), ir.nodes, edges)
    IN /\ \A k \in InputEdges :
             MakeEdgeAnalyses(edges, calm.calm_status)[ir.edges[k].id].calm = CalmOf(k)
       /\ calm.overall_calm_safe = overall.calm_safe

\* C27: order independence: the nd_effect of every node, the calm status of
\* every edge and both overall flags are the same for every order in which
\* the worklist is filled and popped, and for every permutation of the input
\* edge sequence, also when several edges join the same ordered pair of nodes.
C27_OrderIndependence ==
    Done =>
        \A perm \in IterOrders(InputEdges) :
            NdEffectsIndependent(PermutedEdges(perm)) /\ CalmIndependent(PermutedEdges(perm))

NonDetIsNever(sem) == sem.nd # "Deterministic" => sem.monotone = "Never"

TableLabels ==
    LabelsDetAlways \cup LabelsDetNever \cup LabelsDetDepends \cup LabelsNonDetNever
        \cup {Unwrap(l) : l \in OperatorLabels \ {None}}

TablesNonDetIsNever ==
    /\ \A kind \in LabelledKinds : NonDetIsNever(get_semantics(kind))
    /\ \A l \in TableLabels :
          IsSome(get_semantics_by_label(l)) => NonDetIsNever(Unwrap(get_semantics_by_label(l)))

HasTag(tags, tag) == IsSome(tags) /\ \E t \in 1..Len(Unwrap(tags)) : Unwrap(tags)[t] = tag

\* C28: nondeterminism implies CALM-unsafety: every classification of the
\* kind table and of the label table with nd other than Deterministic has
\* monotone = Never; so every critical edge whose target exists and has an
\* nd_effect other than Deterministic is CalmUnsafe, and every node tagged
\* NonDetRoot is also tagged NonMonotone.
C28_NonDetImpliesUnsafe ==
    Annotated =>
        /\ TablesNonDetIsNever
        /\ \A i \in 1..Len(ir.nodes) : NonDetIsNever(get_node_semantics(ir.nodes[i]))
        /\ \A k \in InputEdges :
              (/\ Critical(k)
               /\ ir.edges[k].target \in InputNodeIds
               /\ NdEffectOf(ir.edges[k].target) # "Deterministic")
                  => CalmOf(k) = "CalmUnsafe"
        /\ \A i \in 1..Len(Output.nodes) :
              HasTag(Output.nodes[i].semantic_tags, "NonDetRoot")
                  => HasTag(Output.nodes[i].semantic_tags, "NonMonotone")

\* A root upstream of a lattice-labelled critical edge whose target is
\* deterministic by itself and inherits: the edge is CalmUnsafe, the root is
\* tagged NonDetRoot and NonMonotone.
C28_Witness ==
    /\ Annotated
    /\ \E k \in InputEdges : \E i \in 1..Len(Output.nodes) :
          /\ Critical(k)
          /\ is_lattice_type(ir.edges[k].label)
          /\ ir.edges[k].target \in InputNodeIds
          /\ OwnSemantics(ir.edges[k].target).nd = "Deterministic"
          /\ NdEffectOf(ir.edges[k].target) = "LocallyNonDet"
          /\ CalmOf(k) = "CalmUnsafe"
          /\ ir.nodes[i].id = ir.edges[k].source
          /\ HasTag(Output.nodes[i].semantic_tags, "NonDetRoot")
          /\ HasTag(Output.nodes[i].semantic_tags, "NonMonotone")

TargetExists(k) == ir.edges[k].target \in InputNodeIds

\* C29: CALM-unsafety propagates downstream: for critical edges E1 and E2
\* whose targets exist, if the target of E1 is backward-reachable from the
\* target of E2 (or is the same node) and E1 is CalmUnsafe, then E2 is
\* CalmUnsafe; two critical edges with the same target have the same status.
C29_UnsafePropagates ==
    Done =>
        \A e1, e2 \in InputEdges :
            (Critical(e1) /\ Critical(e2) /\ TargetExists(e1) /\ TargetExists(e2)) =>
                /\ (ir.edges[e1].target \in Cone(e2) /\ CalmOf(e1) = "CalmUnsafe")
                       => CalmOf(e2) = "CalmUnsafe"
                /\ ir.edges[e1].target = ir.edges[e2].target => CalmOf(e1) = CalmOf(e2)

\* Two critical edges with lattice labels in a row: the first is CalmUnsafe
\* for a non-monotone node upstream, and so is the second, whose target and
\* source are monotone.
C29_Witness ==
    /\ Done
    /\ \E e1, e2 \in InputEdges :
          /\ Critical(e1) /\ Critical(e2) /\ TargetExists(e1) /\ TargetExists(e2)
          /\ ir.edges[e1].source \in InputNodeIds
          /\ ir.edges[e1].target # ir.edges[e2].target
          /\ ir.edges[e1].target = ir.edges[e2].source
          /\ ir.edges[e2].target \notin Cone(e1)
          /\ is_lattice_type(ir.edges[e1].label) /\ is_lattice_type(ir.edges[e2].label)
          /\ OwnSemantics(ir.edges[e1].source).monotone = "Never"
          /\ OwnSemantics(ir.edges[e2].source).monotone # "Never"
          /\ OwnSemantics(ir.edges[e2].target).monotone # "Never"
          /\ CalmOf(e1) = "CalmUnsafe" /\ CalmOf(e2) = "CalmUnsafe"

\* C30: annotation is total over opaque configs: annotate returns normally, it
\* never panics, whatever JSON value nodeTypeConfig and edgeStyleConfig hold
\* (absent, an object with or without semanticMappings, an object whose
\* semanticMappings is not an object, an array, a string).
C30_AnnotateTotal ==
    /\ pc # "panic"
    /\ Done => ~create_enhanced_node_config_panics(ir.node_type_config)

====
